---- MODULE Spec2Model ----
(***************************************************************************)
(* Post-call analysis pipeline of supportiq-core: the VAPI webhook, the    *)
(* two extraction requests, the response validation, and the four          *)
(* aggregates written through the relational store (tickets, customer      *)
(* profiles, feedback aggregation, daily analytics).                       *)
(*                                                                         *)
(* Conventions.  Python None / SQL null of a string field is the string    *)
(* None; an Optional number or an Optional object is <<>> (absent) or      *)
(* <<v>>.  sentiment_score and customer_satisfaction_predicted are held    *)
(* in tenths (-0.5 is -5, 2.0 is 20).  Averages are exact rationals [n,d]  *)
(* in lowest terms, the real-number meaning of the float expressions.      *)
(* Feedback texts are sequences of one-character strings, so that strip()  *)
(* and len() are computed.  list(set(xs)) keeps first occurrences, one of  *)
(* the orders Python may produce.                                          *)
(***************************************************************************)
EXTENDS Integers, Sequences, FiniteSets, TLC

VARIABLES scope, store, task, ack, delivered, profHist, dailyHist, procs, now, bf

vars ==
  <<scope, store, task, ack, delivered, profHist, dailyHist, procs, now, bf>>

(* ------------------------------ bounds -------------------------------- *)

MaxCalls == 2

MaxFaults == 1

\* Processes that run pipelines against the same store at the same time.
MaxProcs == 2

\* Ticket updates requested through the API and the chat tool.
MaxUpdates == 2

\* Re-analyses and backfill runs in one behaviour.
MaxRuns == 1

\* The largest --concurrency of a backfill run.
MaxConcurrency == 2

(* --------------------------- Python helpers --------------------------- *)

None == "None"

Truthy(s) == s # None /\ s # ""

PyOr(a, b) == IF Truthy(a) THEN a ELSE b

OrZero(d) == IF d = <<>> THEN 0 ELSE d[1]

Abs(x) == IF x < 0 THEN -x ELSE x

RECURSIVE GCD(_, _)
GCD(a, b) == IF b = 0 THEN a ELSE GCD(b, a % b)

Rat(n, d) == LET g == GCD(Abs(n), d) IN [n |-> n \div g, d |-> d \div g]

RECURSIVE SumSeq(_)
SumSeq(s) == IF s = <<>> THEN 0 ELSE Head(s) + SumSeq(Tail(s))

RECURSIVE Dedupe(_)
Dedupe(s) ==
  IF s = <<>> THEN <<>>
  ELSE LET init == Dedupe(SubSeq(s, 1, Len(s) - 1))
           x == s[Len(s)]
       IN IF \E i \in 1..Len(init) : init[i] = x THEN init ELSE Append(init, x)

IsSpace(ch) == ch = " "

RECURSIVE LStrip(_)
LStrip(t) == IF t # <<>> /\ IsSpace(Head(t)) THEN LStrip(Tail(t)) ELSE t

RECURSIVE RStrip(_)
RStrip(t) ==
  IF t # <<>> /\ IsSpace(t[Len(t)]) THEN RStrip(SubSeq(t, 1, Len(t) - 1)) ELSE t

Strip(t) == RStrip(LStrip(t))

(* ----------------------- schema (models/analysis.py) ------------------ *)

SentimentType == {"positive", "neutral", "negative", "mixed"}

ResolutionStatus ==
  {"resolved", "partially_resolved", "unresolved", "escalated", "follow_up_needed"}

QuickTriageDefaults ==
  [overall_sentiment |-> "neutral", sentiment_score |-> 0,
   primary_category |-> "general_inquiry", resolution_status |-> "unresolved",
   customer_satisfaction_predicted |-> 30, customer_effort_score |-> 3,
   action_items |-> <<>>]

ContactInfoDefaults == [email |-> None, phone |-> None, account_id |-> None]

CustomerFeedbackDefaults ==
  [pain_points |-> <<>>, feature_requests |-> <<>>,
   compliments |-> <<>>, complaints |-> <<>>]

AgentPerformanceDefaults ==
  [overall_score |-> 50, empathy_score |-> 50, knowledge_score |-> 50,
   communication_score |-> 50, efficiency_score |-> 50]

DeepAnalysisDefaults ==
  [contact_info |-> ContactInfoDefaults, feedback |-> CustomerFeedbackDefaults,
   agent_performance |-> AgentPerformanceDefaults, knowledge_gaps |-> <<>>]

TriageSchemaOk(raw) ==
  /\ raw.overall_sentiment \in SentimentType
  /\ raw.sentiment_score >= -10 /\ raw.sentiment_score <= 10
  /\ raw.resolution_status \in ResolutionStatus
  /\ raw.customer_satisfaction_predicted >= 10
  /\ raw.customer_satisfaction_predicted <= 50
  /\ raw.customer_effort_score >= 1 /\ raw.customer_effort_score <= 5

DeepSchemaOk(raw) ==
  \A f \in DOMAIN raw.agent_performance :
    raw.agent_performance[f] >= 0 /\ raw.agent_performance[f] <= 100

(* ------------------- extraction (transcript_analysis.py) -------------- *)

\* A completion-service response: kind is "error" (non-200 or network),
\* "timeout", "null" (content is not a string), "nonjson", "array" (JSON
\* that is not an object) or "object" (a JSON object with fields raw).
\* model_validate of a JSON object: a missing field takes its default.
WithDefaults(raw, defaults) ==
  [f \in DOMAIN defaults |-> IF f \in DOMAIN raw THEN raw[f] ELSE defaults[f]]

Returned(value) == [raised |-> "none", value |-> value]

Raised(exc) == [raised |-> exc, value |-> <<>>]

ModelValidate(obj, ok) ==
  IF ok THEN Returned(<<obj>>) ELSE Raised("ValidationError")

\* The try block of get_quick_triage (lines 470-495).
QuickTriageTry(resp) ==
  CASE resp.kind \in {"error", "timeout", "null"} -> Raised("Exception")
    [] resp.kind = "nonjson" -> Raised("JSONDecodeError")
    [] resp.kind = "array" -> Raised("ValidationError")
    [] OTHER -> ModelValidate(WithDefaults(resp.raw, QuickTriageDefaults),
                  TriageSchemaOk(WithDefaults(resp.raw, QuickTriageDefaults)))

\* The try block of get_deep_analysis (lines 526-551).
DeepAnalysisTry(resp) ==
  CASE resp.kind \in {"error", "timeout", "null"} -> Raised("Exception")
    [] resp.kind = "nonjson" -> Raised("JSONDecodeError")
    [] resp.kind = "array" -> Raised("ValidationError")
    [] OTHER -> ModelValidate(WithDefaults(resp.raw, DeepAnalysisDefaults),
                  DeepSchemaOk(WithDefaults(resp.raw, DeepAnalysisDefaults)))

ExtractionExcept_no_catch_all(r, defaults) ==
  CASE r.raised = "JSONDecodeError" -> Returned(<<>>)
    [] r.raised = "ValidationError" -> Returned(<<defaults>>)
    [] OTHER -> r

\* The except clauses of both functions (lines 497-508, 553-564).
ExtractionExcept(r, defaults) ==
  CASE r.raised = "JSONDecodeError" -> Returned(<<>>)
    [] r.raised = "ValidationError" -> Returned(<<defaults>>)
    [] r.raised = "Exception" -> Returned(<<>>)
    [] OTHER -> r

QuickTriageOutcome(resp) ==
  ExtractionExcept(QuickTriageTry(resp), QuickTriageDefaults)

DeepAnalysisOutcome(resp) ==
  ExtractionExcept(DeepAnalysisTry(resp), DeepAnalysisDefaults)

get_quick_triage_lenient(resp) ==
  IF resp.kind = "nonjson" THEN <<QuickTriageDefaults>>
  ELSE QuickTriageOutcome(resp).value

get_quick_triage(resp) == QuickTriageOutcome(resp).value

get_deep_analysis_unvalidated(resp) ==
  IF resp.kind = "object" THEN <<WithDefaults(resp.raw, DeepAnalysisDefaults)>>
  ELSE DeepAnalysisOutcome(resp).value

get_deep_analysis(resp) == DeepAnalysisOutcome(resp).value

combine_analysis_results(triage, deep) ==
  [call_analysis |->
     [overall_sentiment |-> triage.overall_sentiment,
      sentiment_score |-> triage.sentiment_score,
      primary_category |-> triage.primary_category,
      resolution_status |-> triage.resolution_status,
      customer_satisfaction_predicted |-> triage.customer_satisfaction_predicted,
      action_items |-> triage.action_items,
      knowledge_gaps |-> IF deep # <<>> THEN deep[1].knowledge_gaps ELSE <<>>],
   customer_profile |->
     IF deep # <<>>
     THEN <<[contact_info |-> deep[1].contact_info, feedback |-> deep[1].feedback]>>
     ELSE <<>>,
   agent_performance |->
     IF deep # <<>> THEN <<deep[1].agent_performance>> ELSE <<>>]

\* Length of format_transcript_for_analysis's output.  A message is
\* [role, clen, tlen]: the role string, len(content), len(str(timestamp)).
RoleLabelLen(role) ==
  CASE role \in {"assistant", "bot", "ai"} -> 5
    [] role = "user" -> 8
    [] role = "tool" -> 4
    [] OTHER -> 7

LineLen(msg) ==
  RoleLabelLen(msg.role) + 1 + (IF msg.tlen > 0 THEN msg.tlen + 3 ELSE 0) + 2
    + msg.clen

RECURSIVE JoinedLen(_)
JoinedLen(msgs) ==
  IF msgs = <<>> THEN 0
  ELSE IF Len(msgs) = 1 THEN LineLen(msgs[1])
  ELSE LineLen(Head(msgs)) + 1 + JoinedLen(Tail(msgs))

format_transcript_flat_first(messages, full_transcript_len) ==
  IF full_transcript_len > 0 THEN full_transcript_len
  ELSE JoinedLen(messages)

format_transcript_for_analysis(messages, full_transcript_len) ==
  IF messages = <<>> /\ full_transcript_len > 0 THEN full_transcript_len
  ELSE IF messages = <<>> THEN 0
  ELSE JoinedLen(messages)

MinTranscriptLen == 20

(* ----------------------- tickets (ticket_service.py) ------------------ *)

\* dict.get(key, default).
Get(d, key, default) == IF key \in DOMAIN d THEN d[key] ELSE default

PriorityOf(sentiment_score, resolution, csat, action_items) ==
  IF sentiment_score < -5 /\ resolution = "unresolved" THEN "critical"
  ELSE IF csat < 20 THEN "critical"
  ELSE IF sentiment_score < -3 \/ (resolution = "unresolved" /\ Len(action_items) > 0)
  THEN "high"
  ELSE IF sentiment_score > 3 /\ resolution = "resolved" THEN "low"
  ELSE "medium"

determine_priority_swapped(analysis) ==
  LET sentiment_score == Get(analysis, "sentiment_score", 0)
      resolution == Get(analysis, "resolution_status", "unknown")
      csat == Get(analysis, "customer_satisfaction_predicted", 30)
      action_items == Get(analysis, "action_items", <<>>)
  IN IF sentiment_score < -3 \/ (resolution = "unresolved" /\ Len(action_items) > 0)
     THEN "high"
     ELSE IF sentiment_score < -5 /\ resolution = "unresolved" THEN "critical"
     ELSE IF csat < 20 THEN "critical"
     ELSE IF sentiment_score > 3 /\ resolution = "resolved" THEN "low"
     ELSE "medium"

determine_priority(analysis) ==
  PriorityOf(Get(analysis, "sentiment_score", 0),
             Get(analysis, "resolution_status", "unknown"),
             Get(analysis, "customer_satisfaction_predicted", 30),
             Get(analysis, "action_items", <<>>))

InitialStatus_escalated_open(resolution_status) ==
  IF resolution_status = "resolved" THEN "resolved" ELSE "open"

InitialStatus(resolution_status) ==
  IF resolution_status = "resolved" THEN "resolved"
  ELSE IF resolution_status = "escalated" THEN "in_progress"
  ELSE "open"

\* The try body of create_ticket_from_call: raised is TRUE when the insert
\* is rejected by the store.
CreateTicketTry(st, call_id, user_id, analysis, customer_email, customer_phone, faults) ==
  LET resolution_status == Get(analysis, "resolution_status", "unknown")
      status == InitialStatus(resolution_status)
      record == [call_id |-> call_id, user_id |-> user_id,
                 category |-> Get(analysis, "primary_category", "general_inquiry"),
                 priority |-> determine_priority(analysis),
                 status |-> status,
                 customer_email |-> customer_email,
                 customer_phone |-> customer_phone,
                 sentiment_score |-> Get(analysis, "sentiment_score", None),
                 resolution_status |-> resolution_status,
                 customer_satisfaction_predicted |->
                   IF "customer_satisfaction_predicted" \in DOMAIN analysis
                   THEN analysis.customer_satisfaction_predicted \div 10
                   ELSE None,
                 action_items |-> Get(analysis, "action_items", <<>>),
                 resolved_at |-> IF status = "resolved" THEN <<now>> ELSE <<>>]
  IN IF "ticket_insert" \in faults
     THEN [st |-> st, ret |-> <<>>, raised |-> TRUE]
     ELSE [st |-> [st EXCEPT !.tickets = Append(@, record)],
           ret |-> <<record>>, raised |-> FALSE]

TicketStatuses == {"open", "in_progress", "resolved", "closed"}

TicketPriorities == {"low", "medium", "high", "critical"}

\* update_ticket (lines 193-218); updates holds None for a key the dict
\* lacks, at is utcnow(), failed is a store failure.
update_ticket(st, ticket_id, updates, at, failed) ==
  IF failed THEN [st |-> st, ret |-> <<>>]
  ELSE [st |-> [st EXCEPT !.tickets[ticket_id] =
                  [@ EXCEPT
                     !.status = IF updates.status # None THEN updates.status ELSE @,
                     !.priority =
                        IF updates.priority # None THEN updates.priority ELSE @,
                     !.resolved_at =
                        IF updates.status = "resolved" THEN <<at>> ELSE @]],
        ret |-> <<ticket_id>>]

EndpointAnswer(r) ==
  [st |-> r.st, code |-> IF r.ret = <<>> THEN "500" ELSE "200"]

\* PATCH /tickets/{ticket_id} (api/v1/tickets.py lines 83-124).
update_ticket_endpoint(st, ticket_id, request, current_user, at, failed) ==
  IF ticket_id \notin DOMAIN st.tickets
  THEN [st |-> st, code |-> "404"]
  ELSE IF Truthy(st.tickets[ticket_id].user_id)
          /\ st.tickets[ticket_id].user_id # current_user
  THEN [st |-> st, code |-> "403"]
  ELSE IF Truthy(request.status) /\ request.status \notin TicketStatuses
  THEN [st |-> st, code |-> "400"]
  ELSE IF Truthy(request.priority) /\ request.priority \notin TicketPriorities
  THEN [st |-> st, code |-> "400"]
  ELSE IF ~Truthy(request.status) /\ ~Truthy(request.priority)
  THEN [st |-> st, code |-> "400"]
  ELSE EndpointAnswer(
         update_ticket(st, ticket_id,
           [status |-> IF Truthy(request.status) THEN request.status ELSE None,
            priority |-> IF Truthy(request.priority) THEN request.priority
                         ELSE None],
           at, failed))

ToolAnswer(r) ==
  [st |-> r.st, code |-> IF r.ret = <<>> THEN "tool_error" ELSE "tool_success"]

\* The update_ticket tool of the chat (api/v1/chat.py lines 115-157), the
\* notes left out: arguments come from the completion service.
chat_update_ticket(st, arguments, at, failed) ==
  IF arguments.ticket_number = 0
  THEN [st |-> st, code |-> "tool_error"]
  ELSE IF arguments.ticket_number \notin DOMAIN st.tickets
  THEN [st |-> st, code |-> "tool_error"]
  ELSE IF ~Truthy(arguments.status)
  THEN [st |-> st, code |-> "tool_error"]
  ELSE ToolAnswer(
         update_ticket(st, arguments.ticket_number,
                       [status |-> arguments.status, priority |-> None],
                       at, failed))

\* except Exception: log and return None.
TicketExcept(r) ==
  IF r.raised THEN [st |-> r.st, ret |-> <<>>, raised |-> FALSE] ELSE r

create_ticket_from_call_nocatch(st, call_id, user_id, analysis, customer_email, customer_phone, faults) ==
  CreateTicketTry(st, call_id, user_id, analysis, customer_email, customer_phone, faults)

create_ticket_from_call(st, call_id, user_id, analysis, customer_email, customer_phone, faults) ==
  TicketExcept(CreateTicketTry(st, call_id, user_id, analysis, customer_email,
                               customer_phone, faults))

(* ------------- customer profiles (transcript_analysis.py) ------------- *)

FirstRow(rows, P(_)) ==
  LET m == SelectSeq(rows, P) IN IF m = <<>> THEN <<>> ELSE <<m[1]>>

\* result.data[0] of a select without ORDER BY: the store may return the
\* matching rows in either order.
PickRow(rows, P(_), pick) ==
  LET m == SelectSeq(rows, P)
  IN IF m = <<>> THEN <<>>
     ELSE IF pick = "last" THEN <<m[Len(m)]>> ELSE <<m[1]>>

FindExisting_phone_first(profiles, user_id, email, phone, account_id, pick) ==
  LET byPhone == IF Truthy(phone)
                 THEN PickRow(profiles,
                        LAMBDA r : r.user_id = user_id /\ r.phone = phone, pick)
                 ELSE <<>>
      byEmail == IF byPhone = <<>> /\ Truthy(email)
                 THEN PickRow(profiles,
                        LAMBDA r : r.user_id = user_id /\ r.email = email, pick)
                 ELSE byPhone
  IN IF byEmail = <<>> /\ Truthy(account_id)
     THEN PickRow(profiles,
            LAMBDA r : r.user_id = user_id /\ r.account_id = account_id, pick)
     ELSE byEmail

\* Lines 858-879: email, then phone, then account id, within the tenant.
FindExisting(profiles, user_id, email, phone, account_id, pick) ==
  LET byEmail == IF Truthy(email)
                 THEN PickRow(profiles,
                        LAMBDA r : r.user_id = user_id /\ r.email = email, pick)
                 ELSE <<>>
      byPhone == IF byEmail = <<>> /\ Truthy(phone)
                 THEN PickRow(profiles,
                        LAMBDA r : r.user_id = user_id /\ r.phone = phone, pick)
                 ELSE byEmail
  IN IF byPhone = <<>> /\ Truthy(account_id)
     THEN PickRow(profiles,
            LAMBDA r : r.user_id = user_id /\ r.account_id = account_id, pick)
     ELSE byPhone

RunningMean_no_weight(old_avg, new_total, value) ==
  Rat(old_avg.n + value * old_avg.d, old_avg.d * new_total)

\* ((old_avg * (new_total - 1)) + value) / new_total
RunningMean(old_avg, new_total, value) ==
  Rat(old_avg.n * (new_total - 1) + value * old_avg.d, old_avg.d * new_total)

\* email = user_email or contact_info.get("email")
EffectiveEmail(user_email, contact_info) == PyOr(user_email, contact_info.email)

HasIdentifier_always(email, phone, account_id) == TRUE

\* Line 957: email or phone or account_id
HasIdentifier(email, phone, account_id) ==
  Truthy(email) \/ Truthy(phone) \/ Truthy(account_id)

\* Lines 884-895: the call's duration and the scores of its analytics row.
CallDuration(st, call_id) ==
  LET call_rows == SelectSeq(st.calls, LAMBDA r : r.id = call_id)
  IN IF call_rows = <<>> THEN 0 ELSE OrZero(call_rows[1].duration_seconds)

CallScores(st, call_id) ==
  LET an_rows == SelectSeq(st.analytics, LAMBDA r : r.call_id = call_id)
  IN IF an_rows = <<>> THEN [satisfaction |-> 30, sentiment |-> 0]
     ELSE [satisfaction |-> an_rows[1].customer_satisfaction_predicted,
           sentiment |-> an_rows[1].sentiment_score]

\* Lines 897-953: the existing profile absorbs the call.
UpdateExistingProfile(st, old, fb, call_duration, scores, faults) ==
  IF "profile_write" \in faults
  THEN [st |-> st, ret |-> <<>>, raised |-> TRUE]
  ELSE [st |-> [st EXCEPT !.profiles[old.id] =
                  [old EXCEPT
                     !.total_calls = @ + 1,
                     !.total_call_duration_seconds = @ + call_duration,
                     !.avg_satisfaction_score =
                        RunningMean(@, old.total_calls + 1, scores.satisfaction),
                     !.avg_sentiment_score =
                        RunningMean(@, old.total_calls + 1, scores.sentiment),
                     !.pain_points = Dedupe(@ \o fb.pain_points),
                     !.feature_requests = Dedupe(@ \o fb.feature_requests),
                     !.complaints = Dedupe(@ \o fb.complaints),
                     !.compliments = Dedupe(@ \o fb.compliments)]],
        ret |-> <<old.id>>, raised |-> FALSE]

\* Lines 955-1002: a profile is created only with an identifier; a rejected
\* insert leaves no profile and raises nothing.
CreateProfile(st, user_id, email, phone, account_id, fb, call_duration, scores, faults) ==
  IF ~HasIdentifier(email, phone, account_id) \/ "profile_write" \in faults
  THEN [st |-> st, ret |-> <<>>, raised |-> FALSE]
  ELSE [st |-> [st EXCEPT !.profiles = Append(@,
                  [id |-> Len(st.profiles) + 1, user_id |-> user_id,
                   email |-> email, phone |-> phone, account_id |-> account_id,
                   total_calls |-> 1,
                   total_call_duration_seconds |-> call_duration,
                   avg_satisfaction_score |-> Rat(scores.satisfaction, 1),
                   avg_sentiment_score |-> Rat(scores.sentiment, 1),
                   pain_points |-> fb.pain_points,
                   feature_requests |-> fb.feature_requests,
                   complaints |-> fb.complaints,
                   compliments |-> fb.compliments])],
        ret |-> <<Len(st.profiles) + 1>>, raised |-> FALSE]

UpsertProfile(st, existing, user_id, email, phone, account_id, fb, call_duration, scores, faults) ==
  IF "profile_read" \in faults
  THEN [st |-> st, ret |-> <<>>, raised |-> TRUE]
  ELSE IF existing # <<>>
  THEN UpdateExistingProfile(st, existing[1], fb, call_duration, scores, faults)
  ELSE CreateProfile(st, user_id, email, phone, account_id, fb, call_duration,
                     scores, faults)

UpdateProfileTry(st, customer_profile, user_id, call_id, user_email, faults, pick) ==
  UpsertProfile(st,
    FindExisting(st.profiles, user_id,
                 EffectiveEmail(user_email, customer_profile.contact_info),
                 customer_profile.contact_info.phone,
                 customer_profile.contact_info.account_id, pick),
    user_id,
    EffectiveEmail(user_email, customer_profile.contact_info),
    customer_profile.contact_info.phone,
    customer_profile.contact_info.account_id,
    customer_profile.feedback,
    CallDuration(st, call_id), CallScores(st, call_id), faults)

\* Lines 1004-1008: except Exception: log and return None.
ProfileExcept(r) ==
  IF r.raised THEN [st |-> r.st, ret |-> <<>>, raised |-> FALSE] ELSE r

update_customer_profile(st, customer_profile, user_id, call_id, user_email, faults, pick) ==
  ProfileExcept(UpdateProfileTry(st, customer_profile, user_id, call_id,
                                 user_email, faults, pick))

(* --------------- store_enhanced_analysis (lines 669-820) -------------- *)

\* agent_performance.get("overall_score", 50.0)
AgentPerformanceScore(agent_performance) ==
  IF agent_performance = <<>> THEN <<50>> ELSE <<agent_performance[1].overall_score>>

\* Lines 802-812: the caller phone found in the transcript is written on the
\* call row; a rejected update is logged and dropped.
UpdateCallerPhone(st, call_id, phone, faults) ==
  IF Truthy(phone) /\ "call_update" \notin faults
  THEN [st EXCEPT !.calls =
          [i \in DOMAIN st.calls |->
             IF st.calls[i].id = call_id
             THEN [st.calls[i] EXCEPT !.caller_phone = phone]
             ELSE st.calls[i]]]
  ELSE st

\* Lines 753-789: the analytics row, then the agent performance row in its
\* own try.
InsertAnalytics(st, call_id, analysis, faults) ==
  [st EXCEPT
     !.analytics = Append(@,
        [call_id |-> call_id,
         overall_sentiment |-> analysis.call_analysis.overall_sentiment,
         sentiment_score |-> analysis.call_analysis.sentiment_score,
         primary_category |-> analysis.call_analysis.primary_category,
         resolution_status |-> analysis.call_analysis.resolution_status,
         customer_satisfaction_predicted |->
           analysis.call_analysis.customer_satisfaction_predicted,
         agent_performance_score |-> AgentPerformanceScore(analysis.agent_performance),
         knowledge_gaps |-> analysis.call_analysis.knowledge_gaps]),
     !.agentPerf =
        IF analysis.agent_performance # <<>> /\ "perf_insert" \notin faults
        THEN Append(@, [call_id |-> call_id] @@ analysis.agent_performance[1])
        ELSE @]

StoreAfterProfile_requires_profile(r3, call_id, phone, faults) ==
  IF r3.raised \/ r3.ret = <<>>
  THEN [st |-> r3.st, ret |-> FALSE, profile |-> <<>>, raised |-> r3.raised]
  ELSE [st |-> UpdateCallerPhone(r3.st, call_id, phone, faults),
        ret |-> TRUE, profile |-> r3.ret, raised |-> FALSE]

StoreAfterProfile(r3, call_id, phone, faults) ==
  IF r3.raised
  THEN [st |-> r3.st, ret |-> FALSE, profile |-> <<>>, raised |-> TRUE]
  ELSE [st |-> UpdateCallerPhone(r3.st, call_id, phone, faults),
        ret |-> TRUE, profile |-> r3.ret, raised |-> FALSE]

StoreProfileStep(st2, call_id, analysis, user_id, user_email, faults, pick) ==
  StoreAfterProfile(
    IF analysis.customer_profile # <<>> /\ Truthy(user_id)
    THEN update_customer_profile(st2, analysis.customer_profile[1], user_id,
                                 call_id, user_email, faults, pick)
    ELSE [st |-> st2, ret |-> <<>>, raised |-> FALSE],
    call_id,
    IF analysis.customer_profile # <<>>
    THEN analysis.customer_profile[1].contact_info.phone ELSE None,
    faults)

StoreAnalysisTry(st, call_id, analysis, user_id, user_email, faults, pick) ==
  IF "analytics_insert" \in faults
  THEN [st |-> st, ret |-> FALSE, profile |-> <<>>, raised |-> TRUE]
  ELSE StoreProfileStep(InsertAnalytics(st, call_id, analysis, faults), call_id,
                        analysis, user_id, user_email, faults, pick)

\* Lines 816-820: except Exception: log and return False.
StoreExcept(r) ==
  IF r.raised THEN [r EXCEPT !.ret = FALSE, !.raised = FALSE] ELSE r

store_enhanced_analysis(st, call_id, analysis, user_id, user_email, faults, pick) ==
  StoreExcept(StoreAnalysisTry(st, call_id, analysis, user_id, user_email,
                               faults, pick))

(* ------------ update_feedback_aggregation (lines 1011-1082) ----------- *)

Tagged(feedback_type, items) ==
  [i \in 1..Len(items) |-> [feedback_type |-> feedback_type, text |-> items[i]]]

FeedbackItems(analysis) ==
  LET fb == IF analysis.customer_profile # <<>>
            THEN analysis.customer_profile[1].feedback
            ELSE CustomerFeedbackDefaults
  IN Tagged("pain_point", fb.pain_points)
       \o Tagged("feature_request", fb.feature_requests)
       \o Tagged("complaint", fb.complaints)
       \o Tagged("compliment", fb.compliments)
       \o Tagged("knowledge_gap", analysis.call_analysis.knowledge_gaps)

MinFeedbackLen == 3

Skipped_untrimmed(item_text) == item_text = <<>> \/ Len(item_text) < MinFeedbackLen

\* not item_text or len(item_text.strip()) < 3
Skipped(item_text) == item_text = <<>> \/ Len(Strip(item_text)) < MinFeedbackLen

AddCallId_always(call_ids, call_id) == Append(call_ids, call_id)

\* if call_id not in call_ids: call_ids.append(call_id)
AddCallId(call_ids, call_id) ==
  IF \E i \in 1..Len(call_ids) : call_ids[i] = call_id THEN call_ids
  ELSE Append(call_ids, call_id)

RECURSIVE FeedbackLoop(_, _, _, _, _, _)
FeedbackLoop(rows, items, user_id, call_id, category, faults) ==
  IF items = <<>> THEN [rows |-> rows, raised |-> FALSE]
  ELSE
    LET feedback_type == Head(items).feedback_type
        item_text == Strip(Head(items).text)
        existing == FirstRow(rows,
                      LAMBDA r : /\ r.user_id = user_id
                                 /\ r.feedback_type = feedback_type
                                 /\ r.feedback_text = item_text)
    IN IF Skipped(Head(items).text)
       THEN FeedbackLoop(rows, Tail(items), user_id, call_id, category, faults)
       ELSE IF "fb_select" \in faults THEN [rows |-> rows, raised |-> TRUE]
       ELSE IF existing # <<>>
       THEN IF "fb_update" \in faults THEN [rows |-> rows, raised |-> TRUE]
            ELSE FeedbackLoop(
                   [rows EXCEPT ![existing[1].id] =
                      [@ EXCEPT !.occurrence_count = @ + 1,
                                !.call_ids = AddCallId(@, call_id)]],
                   Tail(items), user_id, call_id, category, faults)
       ELSE IF "fb_insert" \in faults
       THEN FeedbackLoop(rows, Tail(items), user_id, call_id, category, faults)
       ELSE FeedbackLoop(
              Append(rows, [id |-> Len(rows) + 1, user_id |-> user_id,
                            feedback_type |-> feedback_type,
                            feedback_text |-> item_text,
                            occurrence_count |-> 1,
                            call_ids |-> <<call_id>>,
                            category |-> category]),
              Tail(items), user_id, call_id, category, faults)

\* Lines 1078-1082: return True, or False from the except block.
FeedbackReturn(st, r) == [st |-> [st EXCEPT !.feedback = r.rows], ret |-> ~r.raised]

update_feedback_aggregation(st, analysis, user_id, call_id, faults) ==
  IF ~Truthy(user_id) THEN [st |-> st, ret |-> FALSE]
  ELSE FeedbackReturn(st,
         FeedbackLoop(st.feedback, FeedbackItems(analysis), user_id, call_id,
                      analysis.call_analysis.primary_category, faults))

(* ---------------- daily analytics (lines 1085-1203) ------------------- *)

Bump(cond) == IF cond THEN 1 ELSE 0

\* The select of _update_daily_record; user_id is None for the global
\* record.  <<>> or the first matching row.
SelectDailyRecord(rows, call_date, user_id) ==
  LET key == IF Truthy(user_id) THEN user_id ELSE None
  IN FirstRow(rows, LAMBDA r : r.date = call_date /\ r.user_id = key)

\* The write of _update_daily_record: an update by id with values computed
\* from the row that was read, or an insert when none was read.
WriteDailyRecord(rows, existing, call_date, user_id, duration, sentiment, resolution, category, sentiment_score) ==
     IF existing # <<>>
     THEN LET record == existing[1]
              new_total == record.total_calls + 1
              new_duration == record.total_duration_seconds + duration
              categories == record.category_breakdown
          IN [rows EXCEPT ![record.id] =
               [record EXCEPT
                  !.total_calls = new_total,
                  !.completed_calls = @ + 1,
                  !.total_duration_seconds = new_duration,
                  !.avg_duration_seconds = Rat(new_duration, new_total),
                  !.resolved_calls = @ + Bump(resolution = "resolved"),
                  !.escalated_calls = @ + Bump(resolution = "escalated"),
                  !.positive_calls = @ + Bump(sentiment = "positive"),
                  !.neutral_calls = @ + Bump(sentiment = "neutral"),
                  !.negative_calls = @ + Bump(sentiment = "negative"),
                  !.category_breakdown =
                     IF category \in DOMAIN categories
                     THEN [categories EXCEPT ![category] = @ + 1]
                     ELSE categories @@ (category :> 1),
                  !.avg_sentiment_score =
                     RunningMean(@, new_total, sentiment_score)]]
     ELSE Append(rows,
            [id |-> Len(rows) + 1, date |-> call_date, user_id |-> user_id,
             total_calls |-> 1, completed_calls |-> 1,
             total_duration_seconds |-> duration,
             avg_duration_seconds |-> Rat(duration, 1),
             resolved_calls |-> Bump(resolution = "resolved"),
             escalated_calls |-> Bump(resolution = "escalated"),
             positive_calls |-> Bump(sentiment = "positive"),
             neutral_calls |-> Bump(sentiment = "neutral"),
             negative_calls |-> Bump(sentiment = "negative"),
             avg_sentiment_score |-> Rat(sentiment_score, 1),
             category_breakdown |-> (category :> 1)])

\* _update_daily_record run without another process in between.
UpdateDailyRecord(rows, call_date, user_id, duration, sentiment, resolution, category, sentiment_score) ==
  WriteDailyRecord(rows, SelectDailyRecord(rows, call_date, user_id),
                   call_date, user_id, duration, sentiment, resolution,
                   category, sentiment_score)

\* The id of the record _update_daily_record reads or creates.
DailyRowId(rows, call_date, user_id) ==
  LET key == IF Truthy(user_id) THEN user_id ELSE None
      existing == FirstRow(rows, LAMBDA r : r.date = call_date /\ r.user_id = key)
  IN IF existing # <<>> THEN existing[1].id ELSE Len(rows) + 1

update_daily_analytics_global_only(st, call_id, analysis, faults) ==
  LET call_rows == SelectSeq(st.calls, LAMBDA r : r.id = call_id)
      call == call_rows[1]
      ca == analysis.call_analysis
  IN IF "daily_read" \in faults \/ call_rows = <<>> \/ "daily_global" \in faults
     THEN [st |-> st, ret |-> FALSE, touched |-> {}]
     ELSE [st |-> [st EXCEPT !.daily =
                     UpdateDailyRecord(st.daily, call.started_at, None,
                                       OrZero(call.duration_seconds),
                                       ca.overall_sentiment, ca.resolution_status,
                                       ca.primary_category, ca.sentiment_score)],
           ret |-> TRUE,
           touched |-> {DailyRowId(st.daily, call.started_at, None)}]

update_daily_analytics(st, call_id, analysis, faults) ==
  LET call_rows == SelectSeq(st.calls, LAMBDA r : r.id = call_id)
      call == call_rows[1]
      user_id == call.caller_id
      duration == OrZero(call.duration_seconds)
      ca == analysis.call_analysis
      g == UpdateDailyRecord(st.daily, call.started_at, None, duration,
                             ca.overall_sentiment, ca.resolution_status,
                             ca.primary_category, ca.sentiment_score)
      gid == DailyRowId(st.daily, call.started_at, None)
      u == UpdateDailyRecord(g, call.started_at, user_id, duration,
                             ca.overall_sentiment, ca.resolution_status,
                             ca.primary_category, ca.sentiment_score)
      uid == DailyRowId(g, call.started_at, user_id)
  IN IF "daily_read" \in faults \/ call_rows = <<>>
     THEN [st |-> st, ret |-> FALSE, touched |-> {}]
     ELSE IF "daily_global" \in faults
     THEN [st |-> st, ret |-> FALSE, touched |-> {}]
     ELSE IF ~Truthy(user_id)
     THEN [st |-> [st EXCEPT !.daily = g], ret |-> TRUE, touched |-> {gid}]
     ELSE IF "daily_tenant" \in faults
     THEN [st |-> [st EXCEPT !.daily = g], ret |-> FALSE, touched |-> {gid}]
     ELSE [st |-> [st EXCEPT !.daily = u], ret |-> TRUE, touched |-> {gid, uid}]

(* ------------- analyze_transcript after the gather (279-334) ---------- *)

NoSteps ==
  [ticket |-> <<>>, stored |-> FALSE, profile |-> <<>>, daily |-> FALSE,
   feedback |-> FALSE, touched |-> {}]

\* Lines 316-328: the result and what each step did.
AnalyzeReturn(t, s, d, f, analysis_result) ==
  [st |-> f.st, ret |-> "result", result |-> <<analysis_result>>,
   raised |-> FALSE,
   steps |-> [ticket |-> t.ret, stored |-> s.ret, profile |-> s.profile,
              daily |-> d.ret, feedback |-> f.ret, touched |-> d.touched]]

\* Lines 309-314: feedback aggregation, only when the analysis was stored.
AnalyzeFeedbackStep(t, s, d, call_id, user_id, analysis_result, faults) ==
  AnalyzeReturn(t, s, d,
    IF s.ret
    THEN update_feedback_aggregation(d.st, analysis_result, user_id, call_id, faults)
    ELSE [st |-> d.st, ret |-> FALSE],
    analysis_result)

AnalyzeDailyStep_unguarded(t, s, call_id, user_id, analysis_result, faults) ==
  IF s.raised
  THEN [st |-> s.st, ret |-> "raised", result |-> <<>>, raised |-> TRUE,
        steps |-> [NoSteps EXCEPT !.ticket = t.ret]]
  ELSE AnalyzeFeedbackStep(t, s,
         update_daily_analytics(s.st, call_id, analysis_result, faults),
         call_id, user_id, analysis_result, faults)

\* Lines 303-307: daily analytics, only when the analysis was stored.
AnalyzeDailyStep(t, s, call_id, user_id, analysis_result, faults) ==
  IF s.raised
  THEN [st |-> s.st, ret |-> "raised", result |-> <<>>, raised |-> TRUE,
        steps |-> [NoSteps EXCEPT !.ticket = t.ret]]
  ELSE AnalyzeFeedbackStep(t, s,
         IF s.ret THEN update_daily_analytics(s.st, call_id, analysis_result, faults)
         ELSE [st |-> s.st, ret |-> FALSE, touched |-> {}],
         call_id, user_id, analysis_result, faults)

\* Lines 293-301: store_enhanced_analysis after the ticket step.
AnalyzeStoreStep(t, call_id, user_id, user_email, analysis_result, faults, pick) ==
  IF t.raised
  THEN [st |-> t.st, ret |-> "raised", result |-> <<>>, raised |-> TRUE,
        steps |-> NoSteps]
  ELSE AnalyzeDailyStep(t,
         store_enhanced_analysis(t.st, call_id, analysis_result, user_id,
                                 user_email, faults, pick),
         call_id, user_id, analysis_result, faults)

AnalyzeTry(st, call_id, user_id, user_email, triage, deep, faults, pick) ==
  IF triage = <<>>
  THEN [st |-> st, ret |-> "none", result |-> <<>>, raised |-> FALSE,
        steps |-> NoSteps]
  ELSE AnalyzeStoreStep(
         create_ticket_from_call(st, call_id, user_id, triage[1], user_email,
           IF deep # <<>> THEN deep[1].contact_info.phone ELSE None, faults),
         call_id, user_id, user_email,
         combine_analysis_results(triage[1], deep), faults, pick)

\* Lines 330-334: except Exception: log and return None.
AnalyzeExcept(r) ==
  IF r.raised THEN [r EXCEPT !.ret = "none", !.raised = FALSE] ELSE r

analyze_transcript(st, call_id, user_id, user_email, triage, deep, faults, pick) ==
  AnalyzeExcept(AnalyzeTry(st, call_id, user_id, user_email, triage, deep,
                           faults, pick))

(* ------------------------ webhook (api/v1/vapi.py) -------------------- *)

\* The body of vapi_webhook's try: the response, whether the end-of-call
\* handler is scheduled as a background task, and whether it raised.
WebhookTry(body) ==
  CASE body.type = "badjson" ->
         [ack |-> "exception", schedule |-> FALSE, raised |-> TRUE]
    [] body.type = "assistant-request" ->
         [ack |-> "assistant", schedule |-> FALSE, raised |-> FALSE]
    [] body.type = "end-of-call-report" ->
         [ack |-> "processing", schedule |-> TRUE, raised |-> FALSE]
    [] body.type = "function-call" ->
         [ack |-> "result", schedule |-> FALSE, raised |-> FALSE]
    [] OTHER -> [ack |-> "ok", schedule |-> FALSE, raised |-> FALSE]

\* Lines 71-74: except Exception: answer with an error status.
WebhookExcept(r) ==
  IF r.raised THEN [r EXCEPT !.ack = "error", !.raised = FALSE] ELSE r

vapi_webhook_nocatch(body) == WebhookTry(body)

vapi_webhook(body) == WebhookExcept(WebhookTry(body))

EndOfCallExit_nocatch(raised) == IF raised THEN "raised" ELSE "returned"

\* Lines 387-390: every exception of handle_end_of_call is logged and dropped.
EndOfCallExit(raised) == "returned"

IdleTask ==
  [pc |-> "idle", body |-> <<>>, call_id |-> 0,
   triage_resp |-> <<>>, deep_resp |-> <<>>, triage |-> <<>>, deep |-> <<>>,
   triage_exc |-> "none", deep_exc |-> "none",
   faults |-> {}, ret |-> "pending", result |-> <<>>, steps |-> NoSteps,
   exit |-> "pending"]

(* ------------------------- input domains ------------------------------ *)

Scopes ==
  {"priority", "extraction", "identity", "means", "feedback", "faults",
   "daily", "race", "validation", "tickets", "short", "create",
   "collections", "profile_race", "rerun", "batches"}

CallLimit ==
  CASE scope = "priority" -> 1
    [] scope \in {"identity", "means", "profile_race"} -> MaxCalls + 1
    [] scope = "batches" -> 9 + MaxCalls
    [] OTHER -> MaxCalls

Turn(role, clen) == [role |-> role, clen |-> clen, tlen |-> 0]

LongTurns == <<Turn("assistant", 30), Turn("user", 40)>>

EndOfCall(user_id, user_email, duration) ==
  [type |-> "end-of-call-report", has_id |-> TRUE, bad_role |-> FALSE,
   user_id |-> user_id, user_email |-> user_email,
   messages |-> LongTurns, transcript_len |-> 75,
   started_at |-> "d1", duration |-> duration]

StdBody == EndOfCall("u1", None, <<60>>)

OtherMessage(type) == [StdBody EXCEPT !.type = type]

Bodies ==
  CASE scope = "extraction" ->
         {StdBody,
          EndOfCall(None, None, <<>>),
          [StdBody EXCEPT !.has_id = FALSE],
          [StdBody EXCEPT !.bad_role = TRUE],
          [StdBody EXCEPT !.messages = <<>>, !.transcript_len = 0],
          [StdBody EXCEPT !.messages = <<>>, !.transcript_len = 12],
          [StdBody EXCEPT !.messages = <<>>],
          [StdBody EXCEPT !.messages = <<Turn("user", 2)>>, !.transcript_len = 2],
          OtherMessage("status-update"), OtherMessage("assistant-request"),
          OtherMessage("function-call"), OtherMessage("badjson")}
    [] scope = "identity" ->
         {EndOfCall("u1", None, <<60>>), EndOfCall("u1", "e1", <<60>>),
          EndOfCall("u2", None, <<60>>)}
    [] scope = "means" ->
         {EndOfCall("u1", None, d) : d \in {<<>>, <<60>>, <<90>>}}
    [] scope = "feedback" ->
         {EndOfCall(u, None, <<60>>) : u \in {"u1", "u2"}}
    [] scope = "short" ->
         {StdBody}
           \cup {[StdBody EXCEPT !.messages = <<Turn("user", n)>>,
                                 !.transcript_len = n] : n \in {8, 9}}
           \cup {[StdBody EXCEPT !.messages = <<>>, !.transcript_len = n] :
                   n \in {0, 19, 20}}
           \cup {[StdBody EXCEPT !.messages = <<Turn("user", 2)>>],
                 [StdBody EXCEPT !.messages = <<Turn("assistant", 3), Turn("user", 2)>>,
                                 !.transcript_len = 5],
                 [StdBody EXCEPT !.messages = <<[Turn("user", 4) EXCEPT !.tlen = 2]>>,
                                 !.transcript_len = 4]}
    [] scope = "rerun" ->
         {StdBody,
          [StdBody EXCEPT !.messages = <<Turn("user", 40)>>],
          EndOfCall("u1", None, <<5>>)}
    [] scope = "daily" ->
         {EndOfCall("u1", None, <<60>>), EndOfCall(None, None, <<45>>),
          EndOfCall("u2", None, <<>>),
          [EndOfCall("u1", None, <<90>>) EXCEPT !.started_at = "d2"]}
    [] OTHER -> {StdBody}

TriageRaw(score, resolution, csat, action_items) ==
  [overall_sentiment |-> IF score < -3 THEN "negative"
                         ELSE IF score > 3 THEN "positive" ELSE "neutral",
   sentiment_score |-> score, primary_category |-> "billing",
   resolution_status |-> resolution,
   customer_satisfaction_predicted |-> csat, customer_effort_score |-> 2,
   action_items |-> action_items]

StdTriage == TriageRaw(0, "unresolved", 30, <<>>)

EscalatedTriage == TriageRaw(-5, "escalated", 20, <<"send refund">>)

ValidTriages == {EscalatedTriage, TriageRaw(10, "resolved", 50, <<>>)}

\* A JSON object that supplies one field of the schema.
PartialTriage == [resolution_status |-> "resolved"]

\* JSON objects that break the triage schema in one field.
InvalidTriages ==
  {[EscalatedTriage EXCEPT !.sentiment_score = x] : x \in {-15, 12}}
    \cup {[EscalatedTriage EXCEPT !.customer_satisfaction_predicted = x] :
            x \in {5, 60}}
    \cup {[EscalatedTriage EXCEPT !.customer_effort_score = x] : x \in {0, 7}}
    \cup {[EscalatedTriage EXCEPT !.overall_sentiment = "angry"],
          [EscalatedTriage EXCEPT !.resolution_status = "done"]}

Response(kind, raw) == [kind |-> kind, raw |-> raw]

FailureKinds == {"error", "timeout", "null", "nonjson"}

TriageResponses ==
  CASE scope = "priority" ->
         {Response("object", TriageRaw(s, r, c, a)) :
            s \in {-6, -5, -4, -3, 0, 3, 4},
            r \in {"resolved", "unresolved", "escalated"},
            c \in {15, 20, 25},
            a \in {<<>>, <<"send refund">>}}
    [] scope = "extraction" ->
         {Response(k, StdTriage) : k \in FailureKinds \cup {"array", "object"}}
           \cup {Response("object", TriageRaw(15, "resolved", 40, <<>>))}
    [] scope = "means" ->
         {Response("object", TriageRaw(s, "resolved", c, <<>>)) :
            s \in {-6, 3}, c \in {40, 20}}
    [] scope = "rerun" ->
         {Response("object", StdTriage), Response("error", StdTriage)}
    [] scope = "batches" ->
         {Response("error", StdTriage)}
    [] scope = "tickets" ->
         {Response("object", TriageRaw(0, r, 30, <<>>)) :
            r \in {"resolved", "escalated", "unresolved"}}
    [] scope = "validation" ->
         {Response("object", t) :
            t \in ValidTriages \cup InvalidTriages \cup {PartialTriage}}
           \cup {Response(k, StdTriage) : k \in FailureKinds \cup {"array"}}
    [] scope = "daily" ->
         {Response("object", StdTriage),
          Response("object", TriageRaw(5, "resolved", 40, <<>>)),
          Response("object", [TriageRaw(-5, "escalated", 20, <<>>)
                                EXCEPT !.primary_category = "technical"]),
          Response("object", [TriageRaw(2, "follow_up_needed", 30, <<>>)
                                EXCEPT !.overall_sentiment = "mixed"])}
    [] OTHER -> {Response("object", StdTriage)}

abc == <<"a", "b", "c">>

xyz == <<"x", "y", "z">>

DeepRaw(email, phone, account_id, pain_points, knowledge_gaps, overall_score) ==
  [contact_info |-> [email |-> email, phone |-> phone, account_id |-> account_id],
   feedback |-> [CustomerFeedbackDefaults EXCEPT !.pain_points = pain_points],
   agent_performance |-> [AgentPerformanceDefaults EXCEPT !.overall_score = overall_score],
   knowledge_gaps |-> knowledge_gaps]

StdDeep == DeepRaw(None, None, None, <<>>, <<>>, 80)

PartialDeep == [knowledge_gaps |-> <<abc>>]

DeepResponses ==
  CASE scope = "extraction" ->
         {Response(k, StdDeep) : k \in FailureKinds \cup {"array"}}
           \cup {Response("object", DeepRaw("e1", "p1", None, <<abc>>, <<>>, 80)),
                 Response("object", DeepRaw("e1", None, None, <<>>, <<>>, 120))}
    [] scope = "identity" ->
         {Response("object", DeepRaw(c[1], c[2], c[3], <<abc>>, <<>>, 80)) :
            c \in {<<None, None, None>>, <<"e1", "p1", None>>,
                   <<"e1", "p2", None>>, <<"", "p1", "a1">>,
                   <<None, None, "a1">>, <<"e2", "p2", "a1">>}}
    [] scope = "means" ->
         {Response("object", DeepRaw("e1", None, None, <<>>, <<>>, 80))}
    [] scope = "feedback" ->
         {Response("object", DeepRaw(None, None, None, p, k, 80)) :
            p \in {<<>>, <<abc>>, <<<<" ">> \o abc \o <<" ">>>>,
                   <<<<" ", "a", "b", " ">>>>, <<abc, abc>>},
            k \in {<<>>, <<abc>>}}
    [] scope = "faults" ->
         {Response("object", DeepRaw("e1", "p1", None, <<abc>>, <<>>, 80))}
    [] scope = "rerun" ->
         {Response("object", DeepRaw("e1", None, None, <<abc>>, <<>>, 80))}
    [] scope = "collections" ->
         {Response("object", DeepRaw("e1", None, None, p, <<>>, 80)) :
            p \in {<<>>, <<abc>>, <<xyz>>, <<abc, xyz>>, <<abc, abc>>}}
           \cup {Response("object",
                    [DeepRaw("e1", None, None, <<abc>>, <<>>, 80)
                       EXCEPT !.feedback.compliments = <<xyz, xyz>>])}
    [] scope = "validation" ->
         {Response(k, StdDeep) : k \in FailureKinds \cup {"array"}}
           \cup {Response("object", PartialDeep)}
           \cup {Response("object", DeepRaw("e1", "p1", None, <<abc>>, <<>>, x)) :
                   x \in {80, 120, -5}}
           \cup {Response("object",
                    [DeepRaw("e1", "p1", None, <<abc>>, <<>>, 80)
                       EXCEPT !.agent_performance.empathy_score = 101])}
    [] OTHER -> {Response("object", StdDeep)}

DeliveryFaultPoints == {"call_insert", "transcript_insert"}

AnalysisFaultPoints ==
  {"ticket_insert", "analytics_insert", "perf_insert", "profile_read",
   "profile_write", "call_update", "daily_read", "daily_global",
   "daily_tenant", "fb_select", "fb_update", "fb_insert"}

\* The store requests of the rollup step.
DailyFaultPoints == {"daily_global", "daily_tenant"}

FaultSets(points) ==
  CASE scope = "faults" ->
         {f \in SUBSET points : Cardinality(f) <= MaxFaults}
    [] scope = "daily" ->
         {f \in SUBSET (points \cap DailyFaultPoints) : Cardinality(f) <= MaxFaults}
    [] OTHER -> {{}}

\* Which matching row a select without ORDER BY returns first.
Picks == IF scope = "identity" THEN {"first", "last"} ELSE {"first"}

(* ------------------------------ actions ------------------------------- *)

Procs == 1..MaxProcs

\* A process between two pipelines.
IdleProc == [pc |-> "idle", calls |-> 0, call |-> <<>>, existing |-> <<>>]

EmptyStore ==
  [calls |-> <<>>, transcripts |-> <<>>, tickets |-> <<>>, analytics |-> <<>>,
   agentPerf |-> <<>>, profiles |-> <<>>, feedback |-> <<>>, daily |-> <<>>]

\* No backfill run and no re-analysis has been started.
IdleBackfill ==
  [phase |-> "idle", force |-> FALSE, concurrency |-> 0, calls |-> <<>>,
   batch_start |-> 0, tasks |-> <<>>, sem |-> 0,
   stats |-> [success |-> 0, failed |-> 0, skipped |-> 0], runs |-> 0]

InitScope(s) ==
  /\ scope = s
  /\ bf = IdleBackfill
  /\ store = EmptyStore
  /\ task = IdleTask
  /\ ack = "none"
  /\ delivered = 0
  /\ profHist = <<>>
  /\ dailyHist = <<>>
  /\ procs = [p \in Procs |-> IdleProc]
  /\ now = 0

Init == \E s \in Scopes : InitScope(s)

Respond(body, r) ==
  /\ task.pc \in {"idle", "done"}
  /\ ack' = r.ack
  /\ IF r.schedule
     THEN /\ delivered < CallLimit
          /\ delivered' = delivered + 1
          /\ task' = [IdleTask EXCEPT !.pc = "scheduled", !.body = <<body>>]
     ELSE /\ ack # r.ack
          /\ UNCHANGED <<task, delivered>>

\* POST /vapi/webhook.  An end-of-call report is handed to a background
\* task; messages are delivered one after the other, between two tasks.
VapiWebhook ==
  /\ \E body \in Bodies : Respond(body, vapi_webhook(body))
  /\ UNCHANGED <<scope, bf, procs, now, store, profHist, dailyHist>>

\* Lines 328-334 of api/v1/vapi.py: the status of the call row.
CallStatus(body) ==
  IF Get(body, "ended_reason", None) = "customer-ended-call" THEN "completed"
  ELSE IF Get(body, "ended_reason", None) = "assistant-error" THEN "failed"
  ELSE IF body.duration # <<>> /\ body.duration[1] # 0 /\ body.duration[1] < 10
  THEN "abandoned"
  ELSE "completed"

\* handle_end_of_call up to the gather of the two extraction requests.
HandleEndOfCall ==
  /\ task.pc = "scheduled"
  /\ \E faults \in FaultSets(DeliveryFaultPoints) :
       LET body == task.body[1]
           call_id == Len(store.calls) + 1
           call_record ==
             [id |-> call_id, caller_id |-> body.user_id,
              started_at |-> body.started_at,
              duration_seconds |-> body.duration, caller_phone |-> None,
              status |-> CallStatus(body)]
           st1 == [store EXCEPT !.calls = Append(@, call_record)]
           st2 == IF "transcript_insert" \in faults THEN st1
                  ELSE [st1 EXCEPT !.transcripts =
                          Append(@, [call_id |-> call_id,
                                     transcript |-> body.messages])]
           formatted == format_transcript_for_analysis(body.messages,
                                                       body.transcript_len)
           stop(ret, raised) ==
             [task EXCEPT !.pc = "done", !.ret = ret, !.faults = faults,
                          !.exit = EndOfCallExit(raised)]
       IN IF ~body.has_id
          THEN task' = stop("skipped", FALSE) /\ store' = store
          ELSE IF body.bad_role
          THEN task' = stop("skipped", TRUE) /\ store' = store
          ELSE IF "call_insert" \in faults
          THEN task' = stop("skipped", FALSE) /\ store' = store
          ELSE IF body.messages = <<>> /\ body.transcript_len = 0
          THEN task' = [stop("skipped", FALSE) EXCEPT !.call_id = call_id]
               /\ store' = st2
          ELSE IF formatted < MinTranscriptLen
          THEN task' = [stop("none", FALSE) EXCEPT !.call_id = call_id]
               /\ store' = st2
          ELSE /\ task' = [task EXCEPT !.pc = "gather", !.call_id = call_id,
                                       !.faults = faults]
               /\ store' = st2
  /\ UNCHANGED <<scope, bf, procs, now, ack, delivered, profHist, dailyHist>>

\* The triage request completes and get_quick_triage validates its response.
TriageReturns ==
  /\ task.pc = "gather"
  /\ task.triage_resp = <<>>
  /\ \E resp \in TriageResponses :
       task' = [task EXCEPT !.triage_resp = <<resp>>,
                            !.triage = get_quick_triage(resp),
                            !.triage_exc = QuickTriageOutcome(resp).raised]
  /\ UNCHANGED <<scope, bf, procs, now, store, ack, delivered, profHist, dailyHist>>

\* The deep request completes and get_deep_analysis validates its response.
DeepReturns ==
  /\ task.pc = "gather"
  /\ task.deep_resp = <<>>
  /\ \E resp \in DeepResponses :
       task' = [task EXCEPT !.deep_resp = <<resp>>,
                            !.deep = get_deep_analysis(resp),
                            !.deep_exc = DeepAnalysisOutcome(resp).raised]
  /\ UNCHANGED <<scope, bf, procs, now, store, ack, delivered, profHist, dailyHist>>

Contribute(hist, id, value) ==
  IF id > Len(hist) THEN Append(hist, <<value>>)
  ELSE [hist EXCEPT ![id] = Append(@, value)]

RECURSIVE ContributeAll(_, _, _)
ContributeAll(hist, ids, value) ==
  IF ids = {} THEN hist
  ELSE LET id == CHOOSE i \in ids : \A j \in ids : i <= j
       IN ContributeAll(Contribute(hist, id, value), ids \ {id}, value)

\* The task ends with the outcome r of analyze_transcript.
Complete(r, faults, triage, duration) ==
  /\ store' = r.st
  /\ task' = [task EXCEPT !.pc = "done", !.ret = r.ret,
                          !.result = r.result, !.steps = r.steps,
                          !.faults = @ \cup faults,
                          !.exit = EndOfCallExit(r.raised)]
  /\ profHist' =
       IF r.steps.profile = <<>> THEN profHist
       ELSE Contribute(profHist, r.steps.profile[1],
              [satisfaction |-> triage[1].customer_satisfaction_predicted,
               sentiment |-> triage[1].sentiment_score])
  /\ dailyHist' =
       IF r.steps.touched = {} THEN dailyHist
       ELSE ContributeAll(dailyHist, r.steps.touched,
              [duration |-> duration, sentiment |-> triage[1].sentiment_score])

Finish_fail_fast ==
  /\ task.pc = "gather"
  /\ task.triage_resp # <<>>
  /\ task.deep_resp # <<>> \/ task.triage = <<>>
  /\ \E faults \in FaultSets(AnalysisFaultPoints), pick \in Picks :
       Complete(analyze_transcript(store, task.call_id, task.body[1].user_id,
                                   task.body[1].user_email, task.triage,
                                   task.deep, faults, pick),
                faults, task.triage,
                OrZero(store.calls[task.call_id].duration_seconds))
  /\ UNCHANGED <<scope, bf, procs, now, ack, delivered>>

\* Both requests are back: the rest of analyze_transcript and of
\* handle_end_of_call run without suspending.
Finish ==
  /\ task.pc = "gather"
  /\ task.triage_resp # <<>>
  /\ task.deep_resp # <<>>
  /\ \E faults \in FaultSets(AnalysisFaultPoints), pick \in Picks :
       Complete(analyze_transcript(store, task.call_id, task.body[1].user_id,
                                   task.body[1].user_email, task.triage,
                                   task.deep, faults, pick),
                faults, task.triage,
                OrZero(store.calls[task.call_id].duration_seconds))
  /\ UNCHANGED <<scope, bf, procs, now, ack, delivered>>

Next == VapiWebhook \/ HandleEndOfCall \/ TriageReturns \/ DeepReturns \/ Finish

Spec == Init /\ [][Next]_vars

SpecPriority == InitScope("priority") /\ [][Next]_vars

SpecExtraction == InitScope("extraction") /\ [][Next]_vars

SpecIdentity == InitScope("identity") /\ [][Next]_vars

SpecMeans == InitScope("means") /\ [][Next]_vars

SpecFeedback == InitScope("feedback") /\ [][Next]_vars

SpecFaults == InitScope("faults") /\ [][Next]_vars

SpecDaily == InitScope("daily") /\ [][Next]_vars

\* Transcripts around the minimum length.
SpecShort == InitScope("short") /\ [][Next]_vars

\* JSON objects that satisfy or break the response schemas.
SpecValidation == InitScope("validation") /\ [][Next]_vars

\* What update_daily_analytics reads from the call row and the analysis
\* (lines 1093-1114) of a call whose analysis was stored.
RollupInputs ==
  {[call_date |-> "d1", user_id |-> u, duration |-> 60,
    sentiment |-> "neutral", resolution |-> r, category |-> "billing",
    sentiment_score |-> 0] :
     u \in {None, "u1"}, r \in {"resolved", "unresolved"}}

\* The pipeline of process p has stored its call's analysis and enters
\* update_daily_analytics.
EnterRollup(p) ==
  /\ procs[p].pc = "idle"
  /\ procs[p].calls < CallLimit
  /\ \E c \in RollupInputs :
       procs' = [procs EXCEPT ![p] =
                   [pc |-> "select_global", calls |-> @.calls + 1,
                    call |-> <<c>>, existing |-> <<>>]]
  /\ UNCHANGED <<scope, bf, now, store, task, ack, delivered, profHist, dailyHist>>

\* The select request of _update_daily_record, for the global record and
\* then for the tenant's.
SelectDaily(p) ==
  /\ procs[p].pc \in {"select_global", "select_tenant"}
  /\ procs' = [procs EXCEPT ![p] =
       [@ EXCEPT
          !.pc = IF @ = "select_global" THEN "write_global" ELSE "write_tenant",
          !.existing =
             SelectDailyRecord(store.daily, procs[p].call[1].call_date,
               IF procs[p].pc = "select_global" THEN None
               ELSE procs[p].call[1].user_id)]]
  /\ UNCHANGED <<scope, bf, now, store, task, ack, delivered, profHist, dailyHist>>

WriteFor(rows, existing, c, user_id) ==
  WriteDailyRecord(rows, existing, c.call_date, user_id, c.duration,
                   c.sentiment, c.resolution, c.category, c.sentiment_score)

\* The update or insert request of _update_daily_record, computed from the
\* row the process read.
WriteDaily(p) ==
  /\ procs[p].pc \in {"write_global", "write_tenant"}
  /\ store' = [store EXCEPT !.daily =
       WriteFor(@, procs[p].existing, procs[p].call[1],
                IF procs[p].pc = "write_global" THEN None
                ELSE procs[p].call[1].user_id)]
  /\ procs' = [procs EXCEPT ![p] =
       [@ EXCEPT
          !.pc = IF @ = "write_global" /\ Truthy(procs[p].call[1].user_id)
                 THEN "select_tenant" ELSE "idle",
          !.existing = <<>>]]
  /\ UNCHANGED <<scope, bf, now, task, ack, delivered, profHist, dailyHist>>

TicketIds == 1..(MaxCalls + 1)

TicketUpdateRequests ==
  {[status |-> s, priority |-> p] :
     s \in TicketStatuses \cup {None, "pending"}, p \in {None, "high"}}

\* Arguments of the tool call, the status within the enum the tool declares.
ToolArguments ==
  {[ticket_number |-> n, status |-> s] :
     n \in {0} \cup TicketIds, s \in TicketStatuses \cup {None}}

Answered(r) == store' = r.st /\ ack' = r.code

\* A ticket update through the tickets API; the clock advances.
UpdateTicketEndpoint ==
  /\ now < MaxUpdates
  /\ now' = now + 1
  /\ \E ticket_id \in TicketIds, request \in TicketUpdateRequests,
        current_user \in {"u1", "u2"}, failed \in BOOLEAN :
       Answered(update_ticket_endpoint(store, ticket_id, request, current_user,
                                       now + 1, failed))
  /\ UNCHANGED <<scope, bf, procs, task, delivered, profHist, dailyHist>>

\* A ticket update through the chat's update_ticket tool.
ChatUpdateTicket ==
  /\ now < MaxUpdates
  /\ now' = now + 1
  /\ \E arguments \in ToolArguments, failed \in BOOLEAN :
       Answered(chat_update_ticket(store, arguments, now + 1, failed))
  /\ UNCHANGED <<scope, bf, procs, task, delivered, profHist, dailyHist>>

NextTickets == Next \/ UpdateTicketEndpoint \/ ChatUpdateTicket

SpecTickets == InitScope("tickets") /\ [][NextTickets]_vars

\* Pipelines in separate processes (webhook workers, the backfill script):
\* every store request is one step, and the steps of the processes
\* interleave.
NextRace == \E p \in Procs : EnterRollup(p) \/ SelectDaily(p) \/ WriteDaily(p)

SpecRace == InitScope("race") /\ [][NextRace]_vars

\* Every outcome of the completion service and of the store.
SpecOutcomes ==
  (InitScope("extraction") \/ InitScope("faults")) /\ [][Next]_vars

TypeOK ==
  /\ scope \in Scopes
  /\ task.pc \in {"idle", "scheduled", "gather", "done"}
  /\ delivered \in 0..CallLimit
  /\ Len(profHist) = Len(store.profiles)
  /\ scope \notin {"race", "profile_race"} => Len(dailyHist) = Len(store.daily)
  /\ now \in 0..MaxUpdates
  /\ \A p \in Procs :
       procs[p].pc \in {"idle", "select_global", "write_global",
                        "select_tenant", "write_tenant",
                        "select_profile", "write_profile"}

(* ------------------------------ claims -------------------------------- *)

Finishing == task.pc = "gather" /\ task'.pc = "done"

Analysed == task.pc = "done" /\ task.deep_resp # <<>>

PriorityRules(a) ==
  <<[when |-> a.sentiment_score < -5 /\ a.resolution_status = "unresolved",
     then |-> "critical"],
    [when |-> a.customer_satisfaction_predicted < 20, then |-> "critical"],
    [when |-> a.sentiment_score < -3
              \/ (a.resolution_status = "unresolved" /\ Len(a.action_items) > 0),
     then |-> "high"],
    [when |-> a.sentiment_score > 3 /\ a.resolution_status = "resolved",
     then |-> "low"],
    [when |-> TRUE, then |-> "medium"]>>

FirstMatch(rules) ==
  rules[CHOOSE i \in 1..Len(rules) :
          rules[i].when /\ \A j \in 1..(i - 1) : ~rules[j].when].then

ScenarioA(a) ==
  /\ a.sentiment_score = -6 /\ a.resolution_status = "unresolved"
  /\ a.customer_satisfaction_predicted = 25 /\ a.action_items = <<>>

\* C1: the priority of the ticket created from a triage result is the result
\* of the first matching rule among (very negative and unresolved -> critical,
\* satisfaction under 2 -> critical, negative or unresolved with action items
\* -> high, positive and resolved -> low, otherwise medium); the input
\* (-0.6, unresolved, 2.5, no action items) gives critical.
C1_PriorityIsFirstMatchingRule ==
  (Analysed /\ task.steps.ticket # <<>>) =>
     /\ task.steps.ticket[1].priority = FirstMatch(PriorityRules(task.triage[1]))
     /\ ScenarioA(task.triage[1]) => task.steps.ticket[1].priority = "critical"

C1_Witness ==
  /\ Analysed /\ task.steps.ticket # <<>>
  /\ ScenarioA(task.triage[1])
  /\ store.tickets[1].priority = "critical"

AggregateTables(st) ==
  <<st.tickets, st.analytics, st.agentPerf, st.profiles, st.feedback, st.daily>>

\* C2: when the triage request ends in a network error, a timeout or a
\* non-JSON response, analyze_transcript returns None and leaves tickets,
\* call analytics, agent performance, customer profiles, feedback aggregates
\* and daily rollups as they were, whatever the deep request returned.
C2_TriageFailureWritesNothing ==
  [][(Finishing /\ task.triage_resp[1].kind \in {"error", "timeout", "nonjson"}) =>
       /\ task'.ret = "none"
       /\ AggregateTables(store') = AggregateTables(store)]_vars

C2_Witness ==
  /\ Analysed
  /\ task.triage_resp[1].kind = "nonjson"
  /\ task.deep_resp[1].kind = "object" /\ task.deep # <<>>
  /\ task.ret = "none"
  /\ Len(store.calls) = 2 /\ Len(store.tickets) = 1

TriageSucceeded ==
  task.triage_resp # <<>> /\ task.triage_resp[1].kind = "object" /\ task.triage # <<>>

DeepFailed ==
  task.deep_resp # <<>> /\ task.deep_resp[1].kind \in {"error", "timeout", "nonjson"}

LastRow(rows) == rows[Len(rows)]

\* C3: when triage succeeds and the deep request times out, raises or returns
\* non-JSON, analyze_transcript returns a result and creates exactly one
\* ticket from the triage fields; the result's profile and agent-performance
\* sections are empty, no customer profile is created or changed, and
\* nothing stored for the call carries an agent-performance value: no agent
\* performance row, and a null agent_performance_score on its analytics row.
C3_DeepFailureFabricatesNothing ==
  [][(Finishing /\ TriageSucceeded /\ DeepFailed) =>
       /\ task'.ret = "result"
       /\ Len(store'.tickets) = Len(store.tickets) + 1
       /\ LastRow(store'.tickets).call_id = task.call_id
       /\ LastRow(store'.tickets).priority = determine_priority(task.triage[1])
       /\ task'.result[1].customer_profile = <<>>
       /\ task'.result[1].agent_performance = <<>>
       /\ store'.profiles = store.profiles
       /\ store'.agentPerf = store.agentPerf
       /\ LastRow(store'.analytics).call_id = task.call_id
       /\ LastRow(store'.analytics).agent_performance_score = <<>>]_vars

StepFaults ==
  [ticket |-> {"ticket_insert"},
   profile |-> {"profile_read", "profile_write"},
   daily |-> {"daily_read", "daily_global", "daily_tenant"},
   feedback |-> {"fb_select", "fb_update", "fb_insert"}]

FailedSteps(faults) == {s \in DOMAIN StepFaults : StepFaults[s] \cap faults # {}}

StepCompleted(s) ==
  CASE s = "ticket" ->
         /\ task.steps.ticket # <<>>
         /\ \E i \in DOMAIN store.tickets : store.tickets[i].call_id = task.call_id
    [] s = "profile" ->
         /\ task.steps.profile # <<>>
         /\ task.steps.profile[1] \in DOMAIN store.profiles
    [] s = "daily" ->
         /\ task.steps.daily
         /\ Cardinality(task.steps.touched) = 2
    [] s = "feedback" ->
         /\ task.steps.feedback
         /\ \E i \in DOMAIN store.feedback :
              \E j \in DOMAIN store.feedback[i].call_ids :
                store.feedback[i].call_ids[j] = task.call_id

OneStepFailed ==
  /\ Analysed /\ task.triage # <<>>
  /\ (task.faults \ DeliveryFaultPoints) \subseteq UNION {StepFaults[s] : s \in DOMAIN StepFaults}
  /\ Cardinality(FailedSteps(task.faults)) = 1

\* C4: when the store rejects the accesses of one of the four downstream
\* steps of a call (ticket, customer profile, daily rollup, feedback
\* aggregate), the three other steps are still carried out for that call
\* and analyze_transcript returns the analysis result.
C4_StepFailuresAreIsolated ==
  OneStepFailed =>
    /\ task.ret = "result"
    /\ \A s \in DOMAIN StepFaults \ FailedSteps(task.faults) : StepCompleted(s)

C4_Witness ==
  /\ OneStepFailed
  /\ task.faults = {"profile_write"}
  /\ task.steps.profile = <<>>
  /\ task.ret = "result"
  /\ StepCompleted("ticket") /\ StepCompleted("daily") /\ StepCompleted("feedback")

\* C5: whatever the completion service and the store do, analyze_transcript
\* returns a result or None and does not raise, handle_end_of_call does not
\* raise, and the webhook answers with a body (never an unhandled exception).
C5_NothingPropagates ==
  /\ ack \in {"none", "assistant", "processing", "result", "ok", "error"}
  /\ task.exit # "raised"
  /\ task.pc = "done" => task.ret \in {"result", "none", "skipped"}

C5_Witness ==
  /\ task.pc = "done"
  /\ task.body[1].bad_role
  /\ task.exit = "returned"
  /\ ack = "error"

Column(values, f) == [i \in 1..Len(values) |-> values[i][f]]

\* avg = sum(values) / len(values), as exact rationals.
IsMeanOf(avg, values) ==
  /\ values # <<>>
  /\ avg.d > 0
  /\ avg.n * Len(values) = SumSeq(values) * avg.d

\* C6: after k sequentially processed calls contributed v1..vk to an
\* aggregate, the profile's avg_satisfaction_score and avg_sentiment_score
\* and the daily record's avg_duration_seconds and avg_sentiment_score equal
\* (v1 + ... + vk) / k and total_calls equals k; satisfaction 4 then 2 on one
\* profile gives average 3.0 with total_calls 2.
C6_RunningAveragesAreMeans ==
  /\ \A p \in DOMAIN store.profiles :
       /\ store.profiles[p].total_calls = Len(profHist[p])
       /\ IsMeanOf(store.profiles[p].avg_satisfaction_score,
                   Column(profHist[p], "satisfaction"))
       /\ IsMeanOf(store.profiles[p].avg_sentiment_score,
                   Column(profHist[p], "sentiment"))
       /\ Column(profHist[p], "satisfaction") = <<40, 20>> =>
            /\ store.profiles[p].avg_satisfaction_score = [n |-> 30, d |-> 1]
            /\ store.profiles[p].total_calls = 2
  /\ \A r \in DOMAIN store.daily :
       /\ store.daily[r].total_calls = Len(dailyHist[r])
       /\ IsMeanOf(store.daily[r].avg_duration_seconds,
                   Column(dailyHist[r], "duration"))
       /\ IsMeanOf(store.daily[r].avg_sentiment_score,
                   Column(dailyHist[r], "sentiment"))

C6_Witness ==
  /\ Len(store.profiles) = 1
  /\ store.profiles[1].email = "e1"
  /\ Column(profHist[1], "satisfaction") = <<40, 20>>
  /\ store.profiles[1].avg_satisfaction_score = [n |-> 30, d |-> 1]
  /\ store.profiles[1].total_calls = 2
  /\ store.daily[1].total_calls = 2

\* The identifiers update_customer_profile works with for the task's call.
Tenant == task.body[1].user_id

CallEmail == EffectiveEmail(task.body[1].user_email, task.deep[1].contact_info)

CallPhone == task.deep[1].contact_info.phone

CallAccount == task.deep[1].contact_info.account_id

TenantProfiles(f, value) ==
  IF Truthy(value)
  THEN {i \in DOMAIN store.profiles :
          store.profiles[i].user_id = Tenant /\ store.profiles[i][f] = value}
  ELSE {}

FirstHit ==
  IF TenantProfiles("email", CallEmail) # {} THEN TenantProfiles("email", CallEmail)
  ELSE IF TenantProfiles("phone", CallPhone) # {} THEN TenantProfiles("phone", CallPhone)
  ELSE TenantProfiles("account_id", CallAccount)

DeepStep == Finishing /\ task.triage # <<>> /\ task.deep # <<>> /\ Truthy(Tenant)

ProfileStep == DeepStep /\ task'.steps.stored

\* C7: the profile a call updates is found among the profiles of the call's
\* tenant by email, else by phone, else by account id, the first lookup that
\* returns a row deciding; a call whose email is the email of a profile of
\* its tenant updates that very profile, whatever its phone, and creates
\* none; a call no lookup matches creates its profile under its own tenant.
C7_LookupOrderIsSticky ==
  [][ProfileStep =>
       /\ FirstHit # {} =>
            /\ task'.steps.profile # <<>>
            /\ task'.steps.profile[1] \in FirstHit
            /\ Len(store'.profiles) = Len(store.profiles)
       /\ \A i \in TenantProfiles("email", CallEmail) : task'.steps.profile = <<i>>
       /\ (FirstHit = {} /\ task'.steps.profile # <<>>) =>
            /\ task'.steps.profile[1] = Len(store.profiles) + 1
            /\ LastRow(store'.profiles).user_id = Tenant]_vars

C7_Witness ==
  /\ Analysed /\ task.steps.profile # <<>>
  /\ task.deep[1].contact_info.email = "e1"
  /\ task.deep[1].contact_info.phone = "p1"
  /\ store.profiles[task.steps.profile[1]].email = "e1"
  /\ store.profiles[task.steps.profile[1]].phone = "p2"
  /\ store.profiles[task.steps.profile[1]].total_calls >= 2
  /\ \E j \in DOMAIN store.profiles :
       store.profiles[j].phone = "p1" /\ store.profiles[j].user_id = Tenant

NoDeepIdentifier ==
  /\ ~Truthy(task.deep[1].contact_info.email)
  /\ ~Truthy(task.deep[1].contact_info.phone)
  /\ ~Truthy(task.deep[1].contact_info.account_id)

HasNonNullIdentifier(profile) ==
  Truthy(profile.email) \/ Truthy(profile.phone) \/ Truthy(profile.account_id)

\* C9: every customer profile row has a non-null email, phone or account id,
\* and a call with no email, no phone and no account id creates no profile.
C9_ProfilesHaveAnIdentifier ==
  [][Finishing =>
       /\ \A i \in DOMAIN store'.profiles : HasNonNullIdentifier(store'.profiles[i])
       /\ (task.deep # <<>> /\ ~Truthy(CallEmail) /\ ~Truthy(CallPhone)
             /\ ~Truthy(CallAccount)) =>
            Len(store'.profiles) = Len(store.profiles)]_vars

C9_Witness ==
  /\ Analysed /\ task.deep # <<>>
  /\ ~Truthy(CallEmail) /\ ~Truthy(CallPhone) /\ ~Truthy(CallAccount)
  /\ task.call_id = 1
  /\ task.steps.stored
  /\ store.profiles = <<>>

FeedbackKey(item) == [feedback_type |-> item.feedback_type, text |-> Strip(item.text)]

\* The items of a call that carry key k and are long enough to be counted.
Occurrences(items, k) ==
  {i \in DOMAIN items :
     FeedbackKey(items[i]) = k /\ Len(k.text) >= MinFeedbackLen}

Aggregates(rows, tenant, k) ==
  {i \in DOMAIN rows :
     /\ rows[i].user_id = tenant
     /\ rows[i].feedback_type = k.feedback_type
     /\ rows[i].feedback_text = k.text}

OnlyRow(rows, ids) == rows[CHOOSE i \in ids : TRUE]

FeedbackStep ==
  Finishing /\ task'.steps.stored /\ task'.steps.feedback /\ Truthy(Tenant)

OneAggregatePerKey(rows) ==
  \A i, j \in DOMAIN rows :
    (/\ rows[i].user_id = rows[j].user_id
     /\ rows[i].feedback_type = rows[j].feedback_type
     /\ rows[i].feedback_text = rows[j].feedback_text) => i = j

\* What one call does to the aggregate of a key it lists n times (n > 0).
KeyAbsorbed(before, after, tenant, k, n, call_id) ==
  /\ Cardinality(Aggregates(after, tenant, k)) = 1
  /\ IF Aggregates(before, tenant, k) = {}
     THEN /\ OnlyRow(after, Aggregates(after, tenant, k)).occurrence_count = n
          /\ OnlyRow(after, Aggregates(after, tenant, k)).call_ids = <<call_id>>
     ELSE /\ Aggregates(after, tenant, k) = Aggregates(before, tenant, k)
          /\ OnlyRow(after, Aggregates(after, tenant, k)).occurrence_count
               = OnlyRow(before, Aggregates(before, tenant, k)).occurrence_count + n
          /\ OnlyRow(after, Aggregates(after, tenant, k)).call_ids
               = Append(OnlyRow(before, Aggregates(before, tenant, k)).call_ids,
                        call_id)

KeyUntouched(before, after, tenant, k) ==
  /\ Aggregates(after, tenant, k) = Aggregates(before, tenant, k)
  /\ \A r \in Aggregates(before, tenant, k) : after[r] = before[r]

\* C10 as stated: there is one feedback aggregate per (tenant, type,
\* trimmed text); the first call with a text creates it with
\* occurrence_count 1 and its call id as the only contributor, each later
\* call with the same trimmed text adds exactly 1 to occurrence_count and
\* its call id once; an item trimmed to less than 3 characters creates and
\* changes nothing.
C10_OneIncrementPerCall ==
  [][FeedbackStep =>
       /\ OneAggregatePerKey(store'.feedback)
       /\ \A r \in DOMAIN store'.feedback :
            Len(store'.feedback[r].feedback_text) >= MinFeedbackLen
       /\ \A i \in DOMAIN FeedbackItems(task'.result[1]) :
            IF Len(Strip(FeedbackItems(task'.result[1])[i].text)) < MinFeedbackLen
            THEN KeyUntouched(store.feedback, store'.feedback, Tenant,
                              FeedbackKey(FeedbackItems(task'.result[1])[i]))
            ELSE KeyAbsorbed(store.feedback, store'.feedback, Tenant,
                             FeedbackKey(FeedbackItems(task'.result[1])[i]), 1,
                             task.call_id)]_vars

ItemAbsorbed(before, after, tenant, items, k, call_id) ==
  IF Occurrences(items, k) = {}
  THEN KeyUntouched(before, after, tenant, k)
  ELSE KeyAbsorbed(before, after, tenant, k, Cardinality(Occurrences(items, k)),
                   call_id)

CallAbsorbed(before, after, tenant, items, call_id) ==
  /\ OneAggregatePerKey(after)
  /\ \A r \in DOMAIN after : Len(after[r].feedback_text) >= MinFeedbackLen
  /\ \A i \in DOMAIN items :
       ItemAbsorbed(before, after, tenant, items, FeedbackKey(items[i]), call_id)
  /\ \A r \in DOMAIN before :
       (\A i \in DOMAIN items :
          r \notin Aggregates(before, tenant, FeedbackKey(items[i])))
         => after[r] = before[r]

\* C10 amended: there is one feedback aggregate per (tenant, type, trimmed
\* text); the first item with a text creates it with occurrence_count 1 and
\* the call id as the only contributor, every later item with the same
\* trimmed text, of the same call or of a later one, adds 1 to
\* occurrence_count, and a call adds its call id once however often it
\* lists the text (so a call listing it once adds exactly 1); an item
\* trimmed to less than 3 characters creates and changes nothing.
C10_OneIncrementPerItem ==
  [][FeedbackStep =>
       CallAbsorbed(store.feedback, store'.feedback, Tenant,
                    FeedbackItems(task'.result[1]), task.call_id)]_vars

C10_Witness ==
  /\ Analysed /\ task.call_id = 2 /\ task.steps.feedback
  /\ task.deep[1].feedback.pain_points = <<<<" ">> \o abc \o <<" ">>>>
  /\ \E r \in DOMAIN store.feedback :
       /\ store.feedback[r].feedback_type = "pain_point"
       /\ store.feedback[r].feedback_text = abc
       /\ store.feedback[r].occurrence_count = 2
       /\ store.feedback[r].call_ids = <<1, 2>>

(* ------------------------- C11: daily rollups ------------------------- *)

DailyCounters ==
  {"total_calls", "completed_calls", "total_duration_seconds",
   "resolved_calls", "escalated_calls", "positive_calls", "neutral_calls",
   "negative_calls"}

Categories == {"billing", "technical", "general_inquiry"}

\* The rows of the bucket (date, key); key is None for the global bucket.
DailyBucket(rows, date, key) ==
  {i \in DOMAIN rows : rows[i].date = date /\ rows[i].user_id = key}

BucketCounter(rows, ids, c) ==
  IF ids = {} THEN 0 ELSE rows[CHOOSE i \in ids : TRUE][c]

BucketCategory(rows, ids, category) ==
  IF ids = {} THEN 0
  ELSE LET b == rows[CHOOSE i \in ids : TRUE].category_breakdown
       IN IF category \in DOMAIN b THEN b[category] ELSE 0

\* What one call adds to a bucket.
CallIncrements(call, ca) ==
  [total_calls |-> 1, completed_calls |-> 1,
   total_duration_seconds |-> OrZero(call.duration_seconds),
   resolved_calls |-> IF ca.resolution_status = "resolved" THEN 1 ELSE 0,
   escalated_calls |-> IF ca.resolution_status = "escalated" THEN 1 ELSE 0,
   positive_calls |-> IF ca.overall_sentiment = "positive" THEN 1 ELSE 0,
   neutral_calls |-> IF ca.overall_sentiment = "neutral" THEN 1 ELSE 0,
   negative_calls |-> IF ca.overall_sentiment = "negative" THEN 1 ELSE 0]

\* The bucket (date, key) is one row after the step, the row it was before
\* if it existed, and every counter grew by the call's increment (a missing
\* bucket counts as all zeros, so a new row holds the call's values).
BucketAbsorbed(before, after, date, key, inc, category) ==
  /\ Cardinality(DailyBucket(after, date, key)) = 1
  /\ DailyBucket(before, date, key) \subseteq DailyBucket(after, date, key)
  /\ \A c \in DailyCounters :
       BucketCounter(after, DailyBucket(after, date, key), c)
         = BucketCounter(before, DailyBucket(before, date, key), c) + inc[c]
  /\ \A k \in Categories :
       BucketCategory(after, DailyBucket(after, date, key), k)
         = BucketCategory(before, DailyBucket(before, date, key), k)
             + (IF k = category THEN 1 ELSE 0)

ChangedRows(before, after) ==
  {i \in DOMAIN after : i \notin DOMAIN before \/ after[i] # before[i]}

\* The analysis was stored and the rollup step met no store failure.
StoredCall == Finishing /\ task'.steps.stored /\ task'.steps.daily

TwoBuckets(before, after, call, ca) ==
  /\ Cardinality(ChangedRows(before, after)) = 2
  /\ BucketAbsorbed(before, after, call.started_at, None,
                    CallIncrements(call, ca), ca.primary_category)
  /\ BucketAbsorbed(before, after, call.started_at, call.caller_id,
                    CallIncrements(call, ca), ca.primary_category)

TenantBuckets(before, after, call, ca) ==
  /\ BucketAbsorbed(before, after, call.started_at, None,
                    CallIncrements(call, ca), ca.primary_category)
  /\ IF Truthy(call.caller_id)
     THEN /\ Cardinality(ChangedRows(before, after)) = 2
          /\ BucketAbsorbed(before, after, call.started_at, call.caller_id,
                            CallIncrements(call, ca), ca.primary_category)
     ELSE Cardinality(ChangedRows(before, after)) = 1

C12_CountersNeverDecrease ==
  [][\A i \in DOMAIN store.daily :
       /\ i \in DOMAIN store'.daily
       /\ \A c \in DailyCounters : store'.daily[i][c] >= store.daily[i][c]]_vars

(* ------------------- C13, C14: response validation -------------------- *)

Clamp(x, lo, hi) == IF x < lo THEN lo ELSE IF x > hi THEN hi ELSE x

\* The raw triage object with each invalid field alone put right.
RepairedTriage(raw) ==
  [WithDefaults(raw, QuickTriageDefaults) EXCEPT
     !.overall_sentiment = IF @ \in SentimentType THEN @ ELSE "neutral",
     !.sentiment_score = Clamp(@, -10, 10),
     !.resolution_status = IF @ \in ResolutionStatus THEN @ ELSE "unresolved",
     !.customer_satisfaction_predicted = Clamp(@, 10, 50),
     !.customer_effort_score = Clamp(@, 1, 5)]

RepairedDeep(raw) ==
  [WithDefaults(raw, DeepAnalysisDefaults) EXCEPT
     !.agent_performance = [f \in DOMAIN @ |-> Clamp(@[f], 0, 100)]]

TriageObject == task.triage_resp # <<>> /\ task.triage_resp[1].kind = "object"

DeepObject == task.deep_resp # <<>> /\ task.deep_resp[1].kind = "object"

\* C13: a JSON object with one invalid field is validated to the same
\* object with that field alone changed (an enum to its default, a number
\* to the nearest bound); every other supplied field keeps its value.
C13_OnlyTheInvalidFieldChanges ==
  /\ TriageObject => task.triage = <<RepairedTriage(task.triage_resp[1].raw)>>
  /\ DeepObject => task.deep = <<RepairedDeep(task.deep_resp[1].raw)>>

InRange(x, lo, hi) == x >= lo /\ x <= hi

OutOfRangeTriage(raw) ==
  \/ ~InRange(raw.sentiment_score, -10, 10)
  \/ ~InRange(raw.customer_satisfaction_predicted, 10, 50)
  \/ ~InRange(raw.customer_effort_score, 1, 5)

OutOfRangeDeep(raw) ==
  \E f \in DOMAIN raw.agent_performance :
    ~InRange(raw.agent_performance[f], 0, 100)

\* C14: every object get_quick_triage or get_deep_analysis returns has its
\* bounded numbers inside their intervals: sentiment_score in [-1, 1],
\* customer_satisfaction_predicted in [1, 5], customer_effort_score in
\* [1, 5], the five agent-performance scores in [0, 100].
C14_ReturnedNumbersAreInRange ==
  /\ task.triage # <<>> =>
       /\ InRange(task.triage[1].sentiment_score, -10, 10)
       /\ InRange(task.triage[1].customer_satisfaction_predicted, 10, 50)
       /\ InRange(task.triage[1].customer_effort_score, 1, 5)
  /\ task.deep # <<>> =>
       \A f \in DOMAIN task.deep[1].agent_performance :
         InRange(task.deep[1].agent_performance[f], 0, 100)

\* Both requests answered with numbers outside their intervals, and both
\* functions returned an object.
C14_Witness ==
  /\ TriageObject
  /\ OutOfRangeTriage(WithDefaults(task.triage_resp[1].raw, QuickTriageDefaults))
  /\ DeepObject
  /\ OutOfRangeDeep(WithDefaults(task.deep_resp[1].raw, DeepAnalysisDefaults))
  /\ task.triage # <<>> /\ task.deep # <<>>

(* ------------------ C15: the extraction never raises ------------------ *)

FullyValidatedTriage(value) ==
  \/ value = <<>>
  \/ /\ Len(value) = 1
     /\ DOMAIN value[1] = DOMAIN QuickTriageDefaults
     /\ TriageSchemaOk(value[1])

FullyValidatedDeep(value) ==
  \/ value = <<>>
  \/ /\ Len(value) = 1
     /\ DOMAIN value[1] = DOMAIN DeepAnalysisDefaults
     /\ DeepSchemaOk(value[1])

\* C15: for every outcome of the completion service neither function
\* raises, and each returns None or an object that has every field of its
\* schema and satisfies the schema.
C15_ExtractionNeverRaises ==
  /\ task.triage_resp # <<>> =>
       task.triage_exc = "none" /\ FullyValidatedTriage(task.triage)
  /\ task.deep_resp # <<>> =>
       task.deep_exc = "none" /\ FullyValidatedDeep(task.deep)

\* The triage request failed with an exception and the deep response
\* supplied one field: None for the first, a completed object for the second.
C15_Witness ==
  /\ task.triage_resp # <<>> /\ task.triage_resp[1].kind = "error"
  /\ task.triage = <<>>
  /\ DeepObject /\ task.deep_resp[1].raw = PartialDeep
  /\ task.deep # <<>> /\ task.deep[1].agent_performance = AgentPerformanceDefaults

(* --------------- C16, C17: schema-invalid JSON objects ---------------- *)

TriageInvalid ==
  /\ TriageObject
  /\ ~TriageSchemaOk(WithDefaults(task.triage_resp[1].raw, QuickTriageDefaults))

DeepInvalid ==
  /\ DeepObject
  /\ ~DeepSchemaOk(WithDefaults(task.deep_resp[1].raw, DeepAnalysisDefaults))

\* C16: when the triage response is a JSON object that violates the triage
\* schema, analyze_transcript returns None and no ticket is created.
C16_InvalidTriageAborts ==
  [][(Finishing /\ TriageInvalid) =>
       /\ task'.ret = "none"
       /\ store'.tickets = store.tickets]_vars

\* C17: when the deep response is a JSON object that violates the deep
\* schema (and the triage succeeded), the call is handled as after a deep
\* timeout: the ticket is created, the result has no profile and no
\* agent-performance section, no profile row is created or changed and no
\* agent-performance row is stored.
C17_InvalidDeepDegrades ==
  [][(Finishing /\ task.triage # <<>> /\ DeepInvalid) =>
       /\ Len(store'.tickets) = Len(store.tickets) + 1
       /\ task'.result # <<>>
       /\ task'.result[1].customer_profile = <<>>
       /\ task'.result[1].agent_performance = <<>>
       /\ store'.profiles = store.profiles
       /\ store'.agentPerf = store.agentPerf]_vars

(* ------------------- C18, C19: the ticket lifecycle ------------------- *)

\* C18: resolved_at is set on the first transition of a ticket into status
\* resolved and never written again: a ticket that has it keeps its value,
\* and a ticket that becomes resolved without one gets one.
C18_ResolvedAtSetOnce ==
  [][\A i \in DOMAIN store.tickets :
       /\ store.tickets[i].resolved_at # <<>> =>
            store'.tickets[i].resolved_at = store.tickets[i].resolved_at
       /\ (store.tickets[i].status # "resolved"
             /\ store'.tickets[i].status = "resolved"
             /\ store.tickets[i].resolved_at = <<>>) =>
            store'.tickets[i].resolved_at # <<>>]_vars

StatusRank(status) ==
  CASE status = "open" -> 1
    [] status = "in_progress" -> 2
    [] status = "resolved" -> 3
    [] status = "closed" -> 4

\* C19: every ticket's status is one of open, in_progress, resolved and
\* closed, and no step moves a ticket to a status that precedes its
\* current one in that order.
C19_StatusNeverMovesBack ==
  [][\A i \in DOMAIN store.tickets :
       /\ store'.tickets[i].status \in TicketStatuses
       /\ StatusRank(store'.tickets[i].status)
            >= StatusRank(store.tickets[i].status)]_vars

(* ------------------- C20: the transcript minimum ---------------------- *)

\* Characters of the turns' content fields.
ContentLen(messages) ==
  SumSeq([i \in DOMAIN messages |-> messages[i].clen])

\* Characters of the text analyze_transcript measures: one line per turn
\* (role label, timestamp, separators, content) joined by newlines, or the
\* flat transcript when there are no turns.
FormattedLen(body) ==
  IF body.messages = <<>> THEN body.transcript_len
  ELSE SumSeq([i \in DOMAIN body.messages |-> LineLen(body.messages[i])])
         + Len(body.messages) - 1

\* The call was recorded and handle_end_of_call invokes analyze_transcript.
AnalysisInvoked ==
  /\ task.pc = "scheduled" /\ task'.pc # "scheduled"
  /\ task'.call_id # 0
  /\ task.body[1].messages # <<>> \/ task.body[1].transcript_len > 0

StoppedBeforeExtraction ==
  /\ task'.pc = "done" /\ task'.ret = "none"
  /\ task'.triage_resp = <<>> /\ task'.deep_resp = <<>>
  /\ AggregateTables(store') = AggregateTables(store)

\* C20 as stated: when the turns carry fewer than 20 characters of content
\* and the flat transcript fewer than 20 characters, analyze_transcript
\* returns None without an extraction request and no ticket, analytics,
\* profile, feedback or rollup record is created.
C20_ShortContentStops ==
  [][(AnalysisInvoked /\ ContentLen(task.body[1].messages) < MinTranscriptLen
        /\ task.body[1].transcript_len < MinTranscriptLen) =>
       StoppedBeforeExtraction]_vars

\* C20 amended: when the text analyze_transcript measures (the role-tagged
\* lines of the turns, labels, timestamps and separators included, or the
\* flat transcript when there are no turns) is shorter than 20 characters,
\* analyze_transcript returns None without an extraction request and no
\* ticket, analytics, profile, feedback or rollup record is created.
C20_ShortFormattedTranscriptStops ==
  [][(AnalysisInvoked /\ FormattedLen(task.body[1]) < MinTranscriptLen) =>
       StoppedBeforeExtraction]_vars

\* A call with one turn of 8 characters (19 with its label) was recorded
\* and its analysis returned None without any extraction request.
C20_Witness ==
  /\ task.pc = "done" /\ task.ret = "none" /\ task.call_id # 0
  /\ task.body[1].messages # <<>>
  /\ FormattedLen(task.body[1]) = MinTranscriptLen - 1
  /\ task.triage_resp = <<>> /\ task.deep_resp = <<>>
  /\ Len(store.calls) = task.call_id /\ store.tickets = <<>>

(* ---------------- ticket creation on its own (C25) -------------------- *)

WithoutKey(d, key) == [k \in DOMAIN d \ {key} |-> d[k]]

\* Analysis dictionaries handed to create_ticket_from_call: every
\* resolution status of the schema, a value outside it, and dictionaries
\* without the key.
TicketAnalyses ==
  {TriageRaw(0, r, 30, <<>>) : r \in ResolutionStatus \cup {"done"}}
    \cup {WithoutKey(StdTriage, "resolution_status"),
          WithoutKey(EscalatedTriage, "resolution_status"),
          [x \in {} |-> None]}

\* One call of create_ticket_from_call; task.triage keeps the dictionary
\* that was passed.
CreateTicketFromCall ==
  /\ Len(store.tickets) < CallLimit
  /\ \E analysis \in TicketAnalyses, user_id \in {None, "u1"},
        faults \in {{}, {"ticket_insert"}} :
       /\ store' = create_ticket_from_call(store, Len(store.tickets) + 1, user_id,
                                           analysis, None, None, faults).st
       /\ task' = [IdleTask EXCEPT !.triage = <<analysis>>, !.faults = faults]
  /\ UNCHANGED <<scope, bf, procs, now, ack, delivered, profHist, dailyHist>>

NextCreate == CreateTicketFromCall

SpecCreate == InitScope("create") /\ [][NextCreate]_vars

TicketCreated == Len(store'.tickets) = Len(store.tickets) + 1

NewTicket == store'.tickets[Len(store'.tickets)]

\* C25: a ticket that create_ticket_from_call inserts has the status
\* resolved when the resolution_status of the analysis it was given is
\* resolved, in_progress when it is escalated, and open for every other
\* value and when the key is missing.
C25_InitialStatusFromResolution ==
  [][TicketCreated =>
       LET analysis == task'.triage[1]
       IN NewTicket.status =
            IF "resolution_status" \notin DOMAIN analysis THEN "open"
            ELSE IF analysis.resolution_status = "resolved" THEN "resolved"
            ELSE IF analysis.resolution_status = "escalated" THEN "in_progress"
            ELSE "open"]_vars

\* Tickets created from an escalated call, from a follow-up call and from
\* an analysis without resolution_status are in the store.
C25_Witness ==
  /\ Len(store.tickets) = 2
  /\ store.tickets[1].status = "in_progress"
  /\ store.tickets[2].status = "open"
  /\ task.triage # <<>>
  /\ "resolution_status" \notin DOMAIN task.triage[1]

(* ------------------- sentiment buckets (C29) -------------------------- *)

SentimentBuckets(row) == row.positive_calls + row.neutral_calls + row.negative_calls

\* C29: in every daily record the positive, neutral and negative counters
\* add up to total_calls, whatever sentiment label the processed calls had.
C29_SentimentBucketsSumToTotal ==
  \A i \in 1..Len(store.daily) :
    SentimentBuckets(store.daily[i]) = store.daily[i].total_calls

(* ---------------- aggregates follow the store step (C30) -------------- *)

AnalyticsInsertFailed ==
  /\ Finishing
  /\ task.triage # <<>>
  /\ "analytics_insert" \in task'.faults

\* C30: the daily records and the feedback rows change only in a run whose
\* store_enhanced_analysis returned True; when the insert of the analytics
\* row fails, the run changes no profile, daily record or feedback row,
\* keeps every ticket (the one it created included) and still returns the
\* analysis result.
C30_AggregatesOnlyAfterStore ==
  [][/\ Finishing /\ (store'.daily # store.daily \/ store'.feedback # store.feedback)
          => task'.steps.stored
     /\ AnalyticsInsertFailed =>
          /\ store'.profiles = store.profiles
          /\ store'.daily = store.daily
          /\ store'.feedback = store.feedback
          /\ store'.analytics = store.analytics
          /\ SubSeq(store'.tickets, 1, Len(store.tickets)) = store.tickets
          /\ "ticket_insert" \notin task'.faults =>
               /\ Len(store'.tickets) = Len(store.tickets) + 1
               /\ store'.tickets[Len(store'.tickets)].call_id = task.call_id
               /\ task'.steps.ticket # <<>>
          /\ ~task'.steps.stored
          /\ task'.ret = "result"
          /\ task'.result # <<>>]_vars

\* A run whose analytics insert failed has ended: its ticket is in the
\* store, no aggregate exists, and the result was returned.
C30_Witness ==
  /\ task.pc = "done"
  /\ "analytics_insert" \in task.faults
  /\ task.ret = "result"
  /\ task.steps.ticket # <<>>
  /\ \E i \in 1..Len(store.tickets) : store.tickets[i].call_id = task.call_id
  /\ store.analytics = <<>>
  /\ store.profiles = <<>>
  /\ store.daily = <<>>
  /\ store.feedback = <<>>

(* ------------------ the two extraction requests (C26) ----------------- *)

BothBack == task.triage_resp # <<>> /\ task.deep_resp # <<>>

PipelineWrites ==
  \/ store'.tickets # store.tickets
  \/ store'.analytics # store.analytics
  \/ store'.agentPerf # store.agentPerf
  \/ store'.profiles # store.profiles
  \/ store'.feedback # store.feedback
  \/ store'.daily # store.daily

\* C26: both extraction requests are in flight from the moment the task
\* enters the gather; a request that returns is recorded with the outcome
\* of its own response and leaves the other request and its outcome as they
\* are, whether it failed or not; the task leaves the gather, and writes a
\* ticket, analytics, profile, feedback or daily row, only when both
\* requests have finished.
C26_BothRequestsFinishBeforeWrites ==
  [][/\ PipelineWrites => task.pc = "gather" /\ BothBack
     /\ (task.pc = "gather" /\ task'.pc # "gather") => BothBack
     /\ (task.pc # "gather" /\ task'.pc = "gather") =>
          task'.triage_resp = <<>> /\ task'.deep_resp = <<>>
     /\ (task'.triage_resp # task.triage_resp /\ task'.triage_resp # <<>>) =>
          /\ task.pc = "gather" /\ task'.pc = "gather"
          /\ task'.triage = get_quick_triage(task'.triage_resp[1])
          /\ task'.deep_resp = task.deep_resp /\ task'.deep = task.deep
     /\ (task'.deep_resp # task.deep_resp /\ task'.deep_resp # <<>>) =>
          /\ task.pc = "gather" /\ task'.pc = "gather"
          /\ task'.deep = get_deep_analysis(task'.deep_resp[1])
          /\ task'.triage_resp = task.triage_resp /\ task'.triage = task.triage]_vars

\* The triage request has failed and the deep request has nevertheless
\* completed with its result, before anything was written for the call.
C26_Witness ==
  /\ task.pc = "gather"
  /\ BothBack
  /\ task.triage_resp[1].kind \in FailureKinds
  /\ task.triage = <<>>
  /\ task.deep_resp[1].kind = "object"
  /\ task.deep # <<>>
  /\ \A i \in 1..Len(store.tickets) : store.tickets[i].call_id # task.call_id

(* ------------- deduplicated profile collections (C27) ----------------- *)

\* The tenant's calls resolve to one profile through the extracted email.
SpecCollections == InitScope("collections") /\ [][Next]_vars

Items(list) == {list[i] : i \in 1..Len(list)}

NoDuplicates(list) ==
  \A i, j \in 1..Len(list) : list[i] = list[j] => i = j

Collections == {"pain_points", "feature_requests", "complaints", "compliments"}

\* The profile the finishing run created or updated.
TouchedProfile == store'.profiles[task'.steps.profile[1]]

\* The items the profile held before the run; none when the run created it.
ItemsBefore(c) ==
  IF task'.steps.profile[1] > Len(store.profiles) THEN {}
  ELSE Items(store.profiles[task'.steps.profile[1]][c])

\* C27: whenever a call is resolved to a profile, by creating it or by
\* updating it, each deduplicated collection of the profile afterwards holds
\* no entry twice and holds exactly the items it held before together with
\* the items the call contributed.
C27_CollectionsAreSetUnions ==
  [][(Finishing /\ task'.steps.profile # <<>>) =>
       \A c \in Collections :
         /\ NoDuplicates(TouchedProfile[c])
         /\ Items(TouchedProfile[c]) =
              ItemsBefore(c) \cup Items(task.deep[1].feedback[c])]_vars

\* The set-union half of C27 alone.
C27_ItemsAreUnions ==
  [][(Finishing /\ task'.steps.profile # <<>>) =>
       \A c \in Collections :
         Items(TouchedProfile[c]) =
           ItemsBefore(c) \cup Items(task.deep[1].feedback[c])]_vars

\* The no-duplicate half of C27 for updates of an existing profile.
C27_UpdatesLeaveNoDuplicates ==
  [][(Finishing /\ task'.steps.profile # <<>>
        /\ task'.steps.profile[1] <= Len(store.profiles)) =>
       \A c \in Collections : NoDuplicates(TouchedProfile[c])]_vars

(* ---------------- concurrent profile updates (C28) -------------------- *)

\* What update_customer_profile works with (lines 851-895) for calls of one
\* tenant that carry the same email: the call's duration and the two scores
\* of its analytics row.
ProfileInputs ==
  {[user_id |-> "u1", email |-> "e1", duration |-> 60,
    satisfaction |-> s, sentiment |-> x] : s \in {20, 40}, x \in {-5, 5}}

\* The pipeline of process p has inserted its analytics row and enters
\* update_customer_profile.
EnterProfile(p) ==
  /\ procs[p].pc = "idle"
  /\ delivered < CallLimit
  /\ delivered' = delivered + 1
  /\ \E c \in ProfileInputs :
       procs' = [procs EXCEPT ![p] =
                   [pc |-> "select_profile", calls |-> @.calls + 1,
                    call |-> <<c>>, existing |-> <<>>]]
  /\ UNCHANGED <<scope, bf, now, store, task, ack, profHist, dailyHist>>

\* The lookup selects of update_customer_profile (lines 858-879); the reads
\* of the process's own call and analytics rows follow without a write of
\* another process mattering to them.
SelectProfile(p) ==
  /\ procs[p].pc = "select_profile"
  /\ procs' = [procs EXCEPT ![p] =
       [@ EXCEPT !.pc = "write_profile",
                 !.existing = FindExisting(store.profiles,
                                           procs[p].call[1].user_id,
                                           procs[p].call[1].email,
                                           None, None, "first")]]
  /\ UNCHANGED <<scope, bf, now, store, task, ack, delivered, profHist, dailyHist>>

UpsertFor(st, existing, c) ==
  UpsertProfile(st, existing, c.user_id, c.email, None, None,
                CustomerFeedbackDefaults, c.duration,
                [satisfaction |-> c.satisfaction, sentiment |-> c.sentiment], {})

WriteProfile_reread(p) ==
  /\ procs[p].pc = "write_profile"
  /\ \E r \in {UpsertFor(store,
                 IF procs[p].existing = <<>> THEN <<>>
                 ELSE <<store.profiles[procs[p].existing[1].id]>>,
                 procs[p].call[1])} :
       /\ store' = r.st
       /\ profHist' = Contribute(profHist, r.ret[1],
                        [satisfaction |-> procs[p].call[1].satisfaction,
                         sentiment |-> procs[p].call[1].sentiment])
  /\ procs' = [procs EXCEPT ![p] = [@ EXCEPT !.pc = "idle", !.existing = <<>>]]
  /\ UNCHANGED <<scope, bf, now, task, ack, delivered, dailyHist>>

\* The update by id or the insert (lines 941-943 and 995), with the values
\* computed from the row the process read.
WriteProfile(p) ==
  /\ procs[p].pc = "write_profile"
  /\ \E r \in {UpsertFor(store, procs[p].existing, procs[p].call[1])} :
       /\ store' = r.st
       /\ profHist' = Contribute(profHist, r.ret[1],
                        [satisfaction |-> procs[p].call[1].satisfaction,
                         sentiment |-> procs[p].call[1].sentiment])
  /\ procs' = [procs EXCEPT ![p] = [@ EXCEPT !.pc = "idle", !.existing = <<>>]]
  /\ UNCHANGED <<scope, bf, now, task, ack, delivered, dailyHist>>

NextProfileRace ==
  \E p \in Procs : EnterProfile(p) \/ SelectProfile(p) \/ WriteProfile(p)

\* Pipelines in separate processes whose calls resolve to one identity.
SpecProfileRace == InitScope("profile_race") /\ [][NextProfileRace]_vars

\* Process p writes an update of a row that another process has updated
\* once since p read it.
OverwritesOneUpdate(p) ==
  /\ procs[p].pc = "write_profile"
  /\ procs'[p].pc = "idle"
  /\ procs[p].existing # <<>>
  /\ store.profiles[procs[p].existing[1].id].total_calls
       = procs[p].existing[1].total_calls + 1

\* C28: updates of one profile by concurrent pipelines are not serialized.
\* When a pipeline writes after another pipeline has updated the row both
\* had read, its write replaces the other's: total_calls stays at the value
\* the earlier write gave it (the row both read plus 1, not plus 2), and
\* the two running means are computed from the row that was read and the
\* writer's own scores, without the other call's value.
C28_LaterWriteOverwrites ==
  [][\A p \in Procs :
       OverwritesOneUpdate(p) =>
         LET read == procs[p].existing[1]
             c == procs[p].call[1]
             before == store.profiles[read.id]
             after == store'.profiles[read.id]
         IN /\ after.total_calls = read.total_calls + 1
            /\ after.total_calls = before.total_calls
            /\ after.avg_satisfaction_score =
                 RunningMean(read.avg_satisfaction_score, read.total_calls + 1,
                             c.satisfaction)
            /\ after.avg_sentiment_score =
                 RunningMean(read.avg_sentiment_score, read.total_calls + 1,
                             c.sentiment)
            /\ Len(profHist'[read.id]) > after.total_calls]_vars

MeanOf(values) == Rat(SumSeq(values), Len(values))

\* Two pipelines read the same profile row and both have written: three
\* calls were resolved to the profile, total_calls is 2, and the mean
\* satisfaction is not the mean of the three calls.
C28_Witness ==
  /\ Len(store.profiles) = 1
  /\ \A p \in Procs : procs[p].pc = "idle"
  /\ Len(profHist[1]) = 3
  /\ store.profiles[1].total_calls = 2
  /\ store.profiles[1].avg_satisfaction_score #
       MeanOf([i \in 1..3 |-> profHist[1][i].satisfaction])

(* ------- re-analysis (transcript_analysis.py 1254-1284) and the ------- *)
(* ------------- backfill script (scripts/backfill_analytics.py) -------- *)

\* batch_size of backfill_analytics.
BatchSize == 10

\* delete().eq("call_id", call_id)
WithoutCall(rows, call_id) == SelectSeq(rows, LAMBDA r : r.call_id # call_id)

\* reanalyze_call up to its call of analyze_transcript: the transcript is
\* read, the caller is taken from the call row when no user_id is given,
\* and the call's analytics and agent-performance rows are deleted.
ReanalyzeStart(st, call_id, user_id) ==
  LET rows == SelectSeq(st.transcripts, LAMBDA r : r.call_id = call_id)
      call_rows == SelectSeq(st.calls, LAMBDA r : r.id = call_id)
  IN IF rows = <<>>
     THEN [st |-> st, found |-> FALSE, messages |-> <<>>, user_id |-> user_id]
     ELSE [st |-> [st EXCEPT !.analytics = WithoutCall(@, call_id),
                             !.agentPerf = WithoutCall(@, call_id)],
           found |-> TRUE,
           messages |-> rows[1].transcript,
           user_id |-> IF ~Truthy(user_id) /\ call_rows # <<>>
                       THEN call_rows[1].caller_id ELSE user_id]

\* The arguments reanalyze_call passes to analyze_transcript: no
\* full_transcript, no user_email.
ReanalyzeBody(r) ==
  [StdBody EXCEPT !.user_id = r.user_id, !.user_email = None,
                  !.messages = r.messages, !.transcript_len = 0]

\* reanalyze_call for a stored call, up to the gather of analyze_transcript.
ReanalyzeCall ==
  /\ task.pc \in {"idle", "done"}
  /\ bf.phase # "running"
  /\ bf.runs < MaxRuns
  /\ bf' = [bf EXCEPT !.runs = @ + 1]
  /\ \E call_id \in 1..Len(store.calls), user_id \in {None, "u1"} :
       \E r \in {ReanalyzeStart(store, call_id, user_id)} :
         /\ store' = r.st
         /\ task' =
              IF ~r.found
                 \/ format_transcript_for_analysis(r.messages, 0) < MinTranscriptLen
              THEN [IdleTask EXCEPT !.pc = "done", !.call_id = call_id,
                                    !.body = <<ReanalyzeBody(r)>>,
                                    !.ret = "none", !.exit = "returned"]
              ELSE [IdleTask EXCEPT !.pc = "gather", !.call_id = call_id,
                                    !.body = <<ReanalyzeBody(r)>>]
  /\ UNCHANGED <<scope, procs, now, ack, delivered, profHist, dailyHist>>

HasAnalytics(st, call_id) ==
  \E i \in 1..Len(st.analytics) : st.analytics[i].call_id = call_id

\* Lines 264-278: with --force every completed call, otherwise
\* get_calls_without_analytics; no --user-id and no --limit.
CallsToProcess(st, force) ==
  SelectSeq(st.calls,
            LAMBDA c : c.status = "completed" /\ (force \/ ~HasAnalytics(st, c.id)))

\* Lines 311-318: force mode deletes the analytics rows and the tickets of
\* the calls it will process.
RECURSIVE DeleteForReprocessing(_, _)
DeleteForReprocessing(st, calls) ==
  IF calls = <<>> THEN st
  ELSE DeleteForReprocessing(
         [st EXCEPT !.analytics = WithoutCall(@, Head(calls).id),
                    !.tickets = WithoutCall(@, Head(calls).id)],
         Tail(calls))

\* A process_call coroutine that waits for the semaphore.
BfTask(call) ==
  [call |-> call, pc |-> "waiting", triage_resp |-> <<>>, deep_resp |-> <<>>,
   triage |-> <<>>, deep |-> <<>>]

\* Lines 322-332: the coroutines of the batch that starts at batch_start.
BatchTasks(calls, batch_start) ==
  [i \in 1..(IF Len(calls) - batch_start < BatchSize
             THEN Len(calls) - batch_start ELSE BatchSize) |->
     BfTask(calls[batch_start + i])]

\* backfill_analytics up to the gather of the first batch.
StartBackfill ==
  /\ task.pc \in {"idle", "done"}
  /\ bf.phase # "running"
  /\ bf.runs < MaxRuns
  /\ \E force \in BOOLEAN, concurrency \in 0..MaxConcurrency :
       \E calls \in {CallsToProcess(store, force)} :
         IF calls = <<>>
         THEN /\ bf' = [IdleBackfill EXCEPT !.phase = "complete", !.force = force,
                                            !.concurrency = concurrency,
                                            !.runs = bf.runs + 1]
              /\ store' = store
         ELSE /\ bf' = [IdleBackfill EXCEPT !.phase = "running", !.force = force,
                                            !.concurrency = concurrency,
                                            !.calls = calls,
                                            !.tasks = BatchTasks(calls, 0),
                                            !.sem = concurrency,
                                            !.runs = bf.runs + 1]
              /\ store' = IF force THEN DeleteForReprocessing(store, calls)
                          ELSE store
  /\ UNCHANGED <<scope, procs, now, task, ack, delivered, profHist, dailyHist>>

\* process_call from the acquired semaphore to the gather of
\* analyze_transcript (lines 186-213, and 256-264 of the analysis): what
\* the coroutine does without suspending.
ProcessCallStart(st, call) ==
  LET rows == SelectSeq(st.transcripts, LAMBDA r : r.call_id = call.id)
  IN IF rows = <<>> \/ rows[1].transcript = <<>> THEN "skipped"
     ELSE IF Len(rows[1].transcript) < 2 THEN "skipped"
     ELSE IF format_transcript_for_analysis(rows[1].transcript, 0) < MinTranscriptLen
     THEN "failed"
     ELSE "gather"

Waiting(i) == i \in 1..Len(bf.tasks) /\ bf.tasks[i].pc = "waiting"

\* asyncio.Semaphore wakes its waiters in the order they arrived, the order
\* of the batch.
FirstWaiting == CHOOSE i \in 1..Len(bf.tasks) : Waiting(i) /\ \A j \in 1..(i - 1) : ~Waiting(j)

Acquired(i, outcome) ==
  IF outcome = "gather"
  THEN [bf EXCEPT !.tasks[i].pc = "gather", !.sem = @ - 1]
  ELSE [bf EXCEPT !.tasks[i].pc = "done", !.stats[outcome] = @ + 1]

\* async with semaphore: the next coroutine enters process_call and runs to
\* the gather, or leaves at once with its call skipped or failed.
BfAcquire ==
  /\ bf.phase = "running"
  /\ bf.sem > 0
  /\ \E i \in 1..Len(bf.tasks) : Waiting(i)
  /\ bf' = Acquired(FirstWaiting,
                    ProcessCallStart(store, bf.tasks[FirstWaiting].call))
  /\ UNCHANGED <<scope, procs, now, store, task, ack, delivered, profHist, dailyHist>>

BfTriageReturns(i) ==
  /\ bf.phase = "running"
  /\ i <= Len(bf.tasks)
  /\ bf.tasks[i].pc = "gather"
  /\ bf.tasks[i].triage_resp = <<>>
  /\ \E resp \in TriageResponses :
       bf' = [bf EXCEPT !.tasks[i].triage_resp = <<resp>>,
                        !.tasks[i].triage = get_quick_triage(resp)]
  /\ UNCHANGED <<scope, procs, now, store, task, ack, delivered, profHist, dailyHist>>

BfDeepReturns(i) ==
  /\ bf.phase = "running"
  /\ i <= Len(bf.tasks)
  /\ bf.tasks[i].pc = "gather"
  /\ bf.tasks[i].deep_resp = <<>>
  /\ \E resp \in DeepResponses :
       bf' = [bf EXCEPT !.tasks[i].deep_resp = <<resp>>,
                        !.tasks[i].deep = get_deep_analysis(resp)]
  /\ UNCHANGED <<scope, procs, now, store, task, ack, delivered, profHist, dailyHist>>

\* Lines 215-227: the counter process_call increments for the outcome of
\* analyze_transcript.
StatOf(r) == IF r.ret = "result" THEN "success" ELSE "failed"

\* process_call after analyze_transcript returned with outcome r: the
\* counter, and the release of the semaphore.
BfComplete(i, r) ==
  /\ store' = r.st
  /\ bf' = [bf EXCEPT !.tasks[i].pc = "done", !.sem = @ + 1,
                      !.stats[StatOf(r)] = @ + 1]
  /\ profHist' =
       IF r.steps.profile = <<>> THEN profHist
       ELSE Contribute(profHist, r.steps.profile[1],
              [satisfaction |->
                 bf.tasks[i].triage[1].customer_satisfaction_predicted,
               sentiment |-> bf.tasks[i].triage[1].sentiment_score])
  /\ dailyHist' =
       IF r.steps.touched = {} THEN dailyHist
       ELSE ContributeAll(dailyHist, r.steps.touched,
              [duration |-> OrZero(bf.tasks[i].call.duration_seconds),
               sentiment |-> bf.tasks[i].triage[1].sentiment_score])

\* Both requests of coroutine i are back: the rest of analyze_transcript
\* and of process_call run without suspending.
BfFinish(i) ==
  /\ bf.phase = "running"
  /\ i <= Len(bf.tasks)
  /\ bf.tasks[i].pc = "gather"
  /\ bf.tasks[i].triage_resp # <<>>
  /\ bf.tasks[i].deep_resp # <<>>
  /\ \E faults \in FaultSets(AnalysisFaultPoints), pick \in Picks :
       BfComplete(i, analyze_transcript(store, bf.tasks[i].call.id,
                                       bf.tasks[i].call.caller_id, None,
                                       bf.tasks[i].triage, bf.tasks[i].deep,
                                       faults, pick))
  /\ UNCHANGED <<scope, procs, now, task, ack, delivered>>

\* The gather of the batch resumes: the next batch starts, or the run ends.
BfBatchDone ==
  /\ bf.phase = "running"
  /\ \A i \in 1..Len(bf.tasks) : bf.tasks[i].pc = "done"
  /\ bf' = IF bf.batch_start + BatchSize < Len(bf.calls)
           THEN [bf EXCEPT !.batch_start = @ + BatchSize,
                           !.tasks = BatchTasks(bf.calls, bf.batch_start + BatchSize)]
           ELSE [bf EXCEPT !.phase = "complete"]
  /\ UNCHANGED <<scope, procs, now, store, task, ack, delivered, profHist, dailyHist>>

\* Reports arrive while no backfill run is in progress.
QuietWebhook == bf.phase # "running" /\ VapiWebhook

\* The positions of the coroutines in a batch.
BatchSlots == 1..BatchSize

\* The steps of a backfill run that is in progress.
BackfillStep ==
  \/ BfAcquire
  \/ \E i \in BatchSlots : BfTriageReturns(i) \/ BfDeepReturns(i) \/ BfFinish(i)
  \/ BfBatchDone

NextRerun ==
  \/ QuietWebhook \/ HandleEndOfCall \/ TriageReturns \/ DeepReturns \/ Finish
  \/ ReanalyzeCall
  \/ StartBackfill
  \/ BackfillStep

\* Calls are delivered, then re-analysed or backfilled.
SpecRerun == InitScope("rerun") /\ [][NextRerun]_vars

(* -------------------- one ticket per call (C21) ----------------------- *)

TicketsOf(call_id) ==
  {i \in 1..Len(store.tickets) : store.tickets[i].call_id = call_id}

\* C21: whatever sequence of analyses, re-analyses and backfill runs has
\* been applied to the stored calls, no call id has more than one ticket.
C21_OneTicketPerCall ==
  \A call_id \in 1..Len(store.calls) : Cardinality(TicketsOf(call_id)) <= 1

\* The same while only deliveries and backfill runs have taken place.
C21_OneTicketWithoutReanalysis ==
  (bf.runs = 0 \/ bf.phase # "idle") => C21_OneTicketPerCall

(* -------------------- running a call again (C24) ---------------------- *)

\* The feedback aggregate lists the call: an earlier run stored its
\* analysis and aggregated it.
ProcessedBefore(call_id) ==
  \E i \in 1..Len(store.feedback) :
    \E k \in 1..Len(store.feedback[i].call_ids) :
      store.feedback[i].call_ids[k] = call_id

\* The daily records, each profile's call count and running means, and the
\* occurrence counts of the feedback rows.
AggregateValues(st) ==
  [daily |-> st.daily,
   profiles |-> [i \in 1..Len(st.profiles) |->
                   <<st.profiles[i].total_calls,
                     st.profiles[i].avg_satisfaction_score,
                     st.profiles[i].avg_sentiment_score>>],
   feedback |-> [i \in 1..Len(st.feedback) |-> st.feedback[i].occurrence_count]]

BfFinishing(i) ==
  /\ i <= Len(bf.tasks)
  /\ Len(bf'.tasks) = Len(bf.tasks)
  /\ bf.tasks[i].pc = "gather"
  /\ bf'.tasks[i].pc = "done"

\* C24: a pipeline run for a call that was processed before (a re-analysis
\* or a forced backfill, the extraction giving what it gave the first
\* time) leaves the daily records, the profiles' call counts and running
\* means and the feedback occurrence counts as they were.
C24_RerunLeavesAggregates ==
  [][/\ (Finishing /\ ProcessedBefore(task.call_id))
          => AggregateValues(store') = AggregateValues(store)
     /\ \A i \in BatchSlots :
          (BfFinishing(i) /\ ProcessedBefore(bf.tasks[i].call.id))
            => AggregateValues(store') = AggregateValues(store)]_vars

\* C24 for re-analysis alone.
C24_ReanalysisLeavesAggregates ==
  [][(Finishing /\ ProcessedBefore(task.call_id))
       => AggregateValues(store') = AggregateValues(store)]_vars

\* C24 for the forced backfill alone.
C24_ForcedBackfillLeavesAggregates ==
  [][\A i \in BatchSlots :
       (BfFinishing(i) /\ ProcessedBefore(bf.tasks[i].call.id))
         => AggregateValues(store') = AggregateValues(store)]_vars

(* -------------- requests in flight during a backfill (C23) ------------ *)

RECURSIVE SumOver(_, _)
SumOver(f, n) == IF n = 0 THEN 0 ELSE f[n] + SumOver(f, n - 1)

\* The requests of coroutine t to the completion service that have been
\* sent and have not returned.
PendingRequests(t) ==
  IF t.pc # "gather" THEN 0
  ELSE Bump(t.triage_resp = <<>>) + Bump(t.deep_resp = <<>>)

InFlight ==
  SumOver([i \in 1..Len(bf.tasks) |-> PendingRequests(bf.tasks[i])], Len(bf.tasks))

\* C23: during a backfill run with concurrency c at most c requests to the
\* completion service are in flight.
C23_AtMostCRequestsInFlight ==
  bf.phase = "running" => InFlight <= bf.concurrency

\* During a backfill run with concurrency c at most 2c requests are in
\* flight.
C23_AtMostTwoCRequestsInFlight ==
  bf.phase = "running" => InFlight <= 2 * bf.concurrency

(* ------------------- the backfill semaphore (C22) --------------------- *)

\* Runs over calls whose triage request fails, enough of them for a second
\* batch.  The event loop resumes a coroutine that can run, and every
\* request to the completion service returns or times out: a backfill run
\* that can take a step takes one.
SpecBackfill ==
  /\ InitScope("batches")
  /\ [][NextRerun]_vars
  /\ WF_vars(BackfillStep)

\* The coroutines between acquiring and releasing the semaphore.
InPipeline == Cardinality({i \in 1..Len(bf.tasks) : bf.tasks[i].pc = "gather"})

Counted == bf.stats.success + bf.stats.failed + bf.stats.skipped

\* C22: during a backfill run with concurrency c never more than c calls
\* are between acquiring and releasing the semaphore; a run that has begun
\* ends; and when it has ended, success + failed + skipped is the number of
\* calls of the run.
C22_BoundedAndComplete ==
  /\ [](bf.phase = "running" =>
          /\ InPipeline <= bf.concurrency
          /\ InPipeline = bf.concurrency - bf.sem)
  /\ [](bf.phase = "complete" => Counted = Len(bf.calls))
  /\ (bf.phase = "running" ~> bf.phase = "complete")

\* The same, with the end of the run promised only for a concurrency of at
\* least 1.
C22_BoundedAndCompleteWhenPositive ==
  /\ [](bf.phase = "running" =>
          /\ InPipeline <= bf.concurrency
          /\ InPipeline = bf.concurrency - bf.sem)
  /\ [](bf.phase = "complete" => Counted = Len(bf.calls))
  /\ ((bf.phase = "running" /\ bf.concurrency >= 1) ~> bf.phase = "complete")

\* A run of eleven calls with concurrency 2 has ended after its second
\* batch with every call counted.
C22_EndedAfterSecondBatch ==
  /\ bf.phase = "complete"
  /\ bf.concurrency = 2
  /\ bf.batch_start = BatchSize
  /\ Len(bf.calls) = BatchSize + 1
  /\ Counted = BatchSize + 1

\* A run with concurrency 0: every coroutine of the first batch waits for
\* the semaphore.
C22_AllWaiting ==
  /\ bf.phase = "running"
  /\ bf.concurrency = 0
  /\ \A i \in 1..Len(bf.tasks) : bf.tasks[i].pc = "waiting"

====
